---- MODULE Spec2Model ----
(***************************************************************************)
(* Text-structuring core of the judgment database: numeral normalisation   *)
(* (kanji_to_number), citation extraction (extract_laws_from_text), issue  *)
(* extraction (extract_issues), section segmentation (parse_sections),     *)
(* the resolution pass (fix_empty_laws) and the tax-category pass          *)
(* (fix_tax_issue).                                                        *)
(*                                                                         *)
(* A Python str is a sequence of Unicode code points (naturals); the       *)
(* comment beside each literal shows the characters.  A regular            *)
(* expression is a sequence of nodes interpreted by Match with the         *)
(* leftmost, ordered-alternative, greedy/lazy semantics of Python's re.    *)
(***************************************************************************)
EXTENDS Integers, Sequences, FiniteSets, TLC

VARIABLES pc,       \* "in": inputs chosen, "done": the function has returned
          arg,      \* kanji_to_number: the argument s
          tag,      \* how arg was built: [kind, n]
          ret,      \* kanji_to_number: the returned string
          text,     \* extract_laws_from_text / extract_issues: the text
          title,    \* extract_laws_from_text: the case title
          laws,     \* extract_laws_from_text: the returned list
          issues,   \* extract_issues: the returned list
          applied,  \* extract_issues: the strategies that appended to issues
          sections, \* parse_sections: the returned list
          cases,    \* main of fix_empty_laws / fix_tax_issue: the records loaded from index.json
          idx,      \* main: the number of cases the loop has gone through
          index,    \* the records of index.json on disk
          html,     \* the html directory: html[number] is the file of a case
          saved,    \* the pass that wrote index.json last, "" before the first
          index_html \* generate_index_html: the lines of the page

vars == <<pc, arg, tag, ret, text, title, laws, issues, applied, sections, cases, idx, index, html, saved, index_html>>

(***************************************************************************)
(* Strings                                                                 *)
(***************************************************************************)
Range(f) == {f[i] : i \in DOMAIN f}

\* a < b for Python str (lexicographic on code points)
StrLess(a, b) ==
    \E k \in 1..(Len(a) + 1) :
        /\ k <= Len(b)
        /\ \A j \in 1..(k - 1) : a[j] = b[j]
        /\ (k = Len(a) + 1 \/ a[k] < b[k])

\* sub occurs in s
Contains(s, sub) ==
    \E i \in 0..(Len(s) - Len(sub)) : SubSeq(s, i + 1, i + Len(sub)) = sub

\* the characters \s matches in a str pattern
WS == {9, 10, 11, 12, 13, 28, 29, 30, 31, 32, 133, 160, 5760, 8232, 8233, 8239, 8287, 12288}
        \cup (8192..8202)

\* str(n) for n >= 0
RECURSIVE str(_)
str(n) == IF n < 10 THEN <<48 + n>> ELSE Append(str(n \div 10), 48 + (n % 10))

(***************************************************************************)
(* Regular expressions (Python re).  Offsets are 0-based as in Python.     *)
(***************************************************************************)
Lit(s) == [t |-> "lit", s |-> s]
\* a character set repeated lo..hi times (hi = -1: unbounded)
Rep(set, neg, lo, hi, lazy) ==
    [t |-> "rep", set |-> set, neg |-> neg, lo |-> lo, hi |-> hi, lazy |-> lazy]
One(set) == Rep(set, FALSE, 1, 1, FALSE)
Plus(set) == Rep(set, FALSE, 1, -1, FALSE)
Star(set) == Rep(set, FALSE, 0, -1, FALSE)
NotStar(set) == Rep(set, TRUE, 0, -1, FALSE)
\* ordered alternatives, each a sequence of nodes; X? is Alt(<<X, <<>>>>)
Alt(alts) == [t |-> "alt", alts |-> alts]
Opt(nodes) == Alt(<<nodes, <<>>>>)
Open(k) == [t |-> "open", k |-> k]
Close(k) == [t |-> "close", k |-> k]
Bol == [t |-> "bol"]

NoGroups == [k \in 1..2 |-> <<-1, -1>>]
NoMatch == [ok |-> FALSE, start |-> -1, end |-> -1, g |-> NoGroups]

InSet(c, n) == (c \in n.set) # n.neg

\* how many characters from offset i the repetition n can take at most
RunLen(s, i, n) ==
    LET lim == IF n.hi < 0 \/ n.hi > Len(s) - i THEN Len(s) - i ELSE n.hi
    IN  CHOOSE r \in 0..lim :
            /\ r = lim \/ ~InSet(s[i + r + 1], n)
            /\ \A j \in 1..r : InSet(s[i + j], n)

\* the least k in lo..hi with P(k), or hi + 1 when there is none
First(lo, hi, P(_)) ==
    IF hi < lo THEN hi + 1
    ELSE CHOOSE k \in lo..(hi + 1) : (k = hi + 1 \/ P(k)) /\ \A j \in lo..(k - 1) : ~P(j)

\* the match of nodes at offset i, tried in the order of a backtracking matcher;
\* TryCounts tries the counts of a repetition in turn (greedy from run down,
\* lazy from lo up), TryAlts the alternatives in turn: the first that lets
\* the rest of the pattern match wins
RECURSIVE Match(_, _, _, _), TryCounts(_, _, _, _, _, _, _, _), TryAlts(_, _, _, _, _, _, _)
Match(s, nodes, i, g) ==
    IF nodes = <<>> THEN [ok |-> TRUE, start |-> -1, end |-> i, g |-> g]
    ELSE
    LET n == Head(nodes)
        rest == Tail(nodes)
    IN  CASE n.t = "lit" ->
                IF i + Len(n.s) <= Len(s) /\ SubSeq(s, i + 1, i + Len(n.s)) = n.s
                THEN Match(s, rest, i + Len(n.s), g)
                ELSE NoMatch
          [] n.t = "rep" ->
                LET run == RunLen(s, i, n)
                IN  IF run < n.lo THEN NoMatch ELSE TryCounts(s, n, rest, i, g, run, 0, run - n.lo)
          [] n.t = "alt" -> TryAlts(s, n, rest, i, g, 1, Len(n.alts))
          [] n.t = "open" -> Match(s, rest, i, [g EXCEPT ![n.k] = <<i, i>>])
          [] n.t = "close" -> Match(s, rest, i, [g EXCEPT ![n.k] = <<@[1], i>>])
          [] n.t = "bol" -> IF i = 0 THEN Match(s, rest, i, g) ELSE NoMatch

\* the k-th count tried, for k in a..b
TryCounts(s, n, rest, i, g, run, a, b) ==
    IF a = b THEN Match(s, rest, i + (IF n.lazy THEN n.lo + a ELSE run - a), g)
    ELSE LET mid == (a + b) \div 2
             earlier == TryCounts(s, n, rest, i, g, run, a, mid)
         IN  IF earlier.ok THEN earlier ELSE TryCounts(s, n, rest, i, g, run, mid + 1, b)

\* the k-th alternative, for k in a..b
TryAlts(s, n, rest, i, g, a, b) ==
    IF a = b THEN Match(s, n.alts[a] \o rest, i, g)
    ELSE LET mid == (a + b) \div 2
             earlier == TryAlts(s, n, rest, i, g, a, mid)
         IN  IF earlier.ok THEN earlier ELSE TryAlts(s, n, rest, i, g, mid + 1, b)

\* the match at the least offset in a..b
RECURSIVE TryOffsets(_, _, _, _)
TryOffsets(s, nodes, a, b) ==
    IF a = b THEN LET m == Match(s, nodes, a, NoGroups)
                  IN  IF m.ok THEN [m EXCEPT !.start = a] ELSE NoMatch
    ELSE LET mid == (a + b) \div 2
             earlier == TryOffsets(s, nodes, a, mid)
         IN  IF earlier.ok THEN earlier ELSE TryOffsets(s, nodes, mid + 1, b)

\* re.search(nodes, s) from offset from: the leftmost match
Search(s, nodes, from) == IF from > Len(s) THEN NoMatch ELSE TryOffsets(s, nodes, from, Len(s))

\* re.finditer(nodes, s): the successive non-overlapping matches
RECURSIVE FindIter(_, _, _)
FindIter(s, nodes, from) ==
    IF from > Len(s) THEN <<>>
    ELSE LET m == Search(s, nodes, from)
         IN  IF ~m.ok THEN <<>>
             ELSE <<m>> \o FindIter(s, nodes, IF m.end = m.start THEN m.end + 1 ELSE m.end)

\* match.group(k); <<>> stands for both None and ''
Group(s, m, k) == IF m.g[k][1] < 0 THEN <<>> ELSE SubSeq(s, m.g[k][1] + 1, m.g[k][2])

\* re.sub(r'\s+', '', s)
StripSpace(s) == SelectSeq(s, LAMBDA c : c \notin WS)

\* re.sub(nodes, '', s)
RemoveAll(s, nodes) ==
    LET ms == FindIter(s, nodes, 0)
        cut(p) == \E k \in 1..Len(ms) : ms[k].start < p /\ p <= ms[k].end
        keep == SelectSeq([p \in 1..Len(s) |-> p], LAMBDA p : ~cut(p))
    IN  [k \in 1..Len(keep) |-> s[keep[k]]]

(***************************************************************************)
(* update_laws.py: kanji_to_number                                         *)
(***************************************************************************)
\* the table shifted by one digit
ZENKAKU_MAP_shifted(c) == IF c \in 65296..65305 THEN c - 65296 + 49 ELSE c

\* str.maketrans('０１２３４５６７８９', '0123456789')
ZENKAKU_MAP(c) == IF c \in 65296..65305 THEN c - 65296 + 48 ELSE c

\* s.translate(ZENKAKU_MAP)
translate(s) == [i \in 1..Len(s) |-> ZENKAKU_MAP(s[i])]

\* the values KANJI_MAP gives the characters 一 .. 九
KANJI_MAP(c) ==
    CASE c = 19968 -> 1 [] c = 20108 -> 2 [] c = 19977 -> 3 [] c = 22235 -> 4 [] c = 20116 -> 5
      [] c = 20845 -> 6 [] c = 19971 -> 7 [] c = 20843 -> 8 [] c = 20061 -> 9

\* s.isdigit(): non-empty, every character a decimal digit (ASCII or full-width
\* among the characters used here)
isdigit(s) == s # <<>> /\ \A i \in 1..Len(s) : s[i] \in (48..57) \cup (65296..65305)

\* the for loop of kanji_to_number from character i on; <<result, current>>
RECURSIVE KanjiLoop(_, _, _, _)
KanjiLoop(s, i, result, current) ==
    IF i > Len(s) THEN <<result, current>>
    ELSE LET char == s[i]
             one == IF current = 0 THEN 1 ELSE current
         IN  CASE char \in {19968, 20108, 19977, 22235, 20116, 20845, 19971, 20843, 20061} ->
                      KanjiLoop(s, i + 1, result, KANJI_MAP(char))
               [] char = 21313 -> KanjiLoop(s, i + 1, result + one * 10, 0)
               [] char = 30334 -> KanjiLoop(s, i + 1, result + one * 100, 0)
               [] char = 12295 -> KanjiLoop(s, i + 1, result, current * 10)
               [] OTHER -> KanjiLoop(s, i + 1, result, current)

\* full-width digits translated, kanji numerals left as they are
kanji_to_number_no_kanji(s) ==
    IF s = <<>> THEN <<>> ELSE translate(s)

kanji_to_number(s) ==
    IF s = <<>> THEN <<>>
    ELSE LET z == translate(s)
             rc == KanjiLoop(z, 1, 0, 0)
         IN  IF isdigit(z) THEN z
             ELSE IF rc[1] + rc[2] > 0 THEN str(rc[1] + rc[2]) ELSE z

(***************************************************************************)
(* Inputs of kanji_to_number                                               *)
(***************************************************************************)
MaxKanji == 2100   \* kanji numerals are built for 1..MaxKanji
MaxDigits == 3     \* full-width digit strings have 1..MaxDigits characters
MaxOther == 2      \* other strings have 0..MaxOther characters

KanjiDigit == <<19968, 20108, 19977, 22235, 20116, 20845, 19971, 20843, 20061>>

\* d times the multiplier mult; a leading 一 is written only when one is set
KanjiPart(d, mult, one) ==
    IF d = 0 THEN <<>>
    ELSE (IF d = 1 /\ ~one THEN <<>> ELSE <<KanjiDigit[d]>>) \o <<mult>>

\* the kanji numeral of n in 1..9999 by digit + multiplier composition
KanjiNumeral(n, one) ==
    KanjiPart(n \div 1000, 21315, one)
        \o KanjiPart((n \div 100) % 10, 30334, one)
        \o KanjiPart((n \div 10) % 10, 21313, one)
        \o (IF n % 10 = 0 THEN <<>> ELSE <<KanjiDigit[n % 10]>>)

Strings(chars, lo, hi) == UNION {[1..k -> chars] : k \in lo..hi}

OtherChars == {65297, 55, 20108, 21313, 30334, 21315, 12295, 26465}

NumInputs ==
    {[kind |-> "kanji", n |-> n, s |-> KanjiNumeral(n, one)] :
        n \in 1..MaxKanji, one \in BOOLEAN}
    \cup {[kind |-> "zenkaku", n |-> 0, s |-> s] : s \in Strings(65296..65305, 1, MaxDigits)}
    \cup {[kind |-> "other", n |-> 0, s |-> s] : s \in Strings(OtherChars, 0, MaxOther)}

InitNum ==
    /\ pc = "in"
    /\ \E x \in NumInputs : arg = x.s /\ tag = [kind |-> x.kind, n |-> x.n]
    /\ ret = <<>>
    /\ text = <<>> /\ title = <<>> /\ laws = <<>> /\ issues = <<>> /\ applied = {}
    /\ sections = <<>> /\ cases = <<>> /\ idx = 0 /\ index = <<>> /\ html = <<>> /\ saved = "" /\ index_html = <<>>

CallKanjiToNumber ==
    /\ pc = "in"
    /\ ret' = kanji_to_number(arg)
    /\ pc' = "done"
    /\ UNCHANGED <<arg, tag, text, title, laws, issues, applied, sections, cases, idx, index, html, saved, index_html>>

NextNum == CallKanjiToNumber

SpecNum == InitNum /\ [][NextNum]_vars

\* C1: every kanji numeral of an integer n in 1..9999 built by digit + multiplier
\* composition (multipliers 十, 百, 千) is converted to the decimal digits of n.
C1_KanjiTo9999 ==
    (pc = "done" /\ tag.kind = "kanji" /\ tag.n <= 9999) => ret = str(tag.n)

\* numerals below 1000 (multipliers 十, 百 only) are converted to their digits
KanjiBelow1000 ==
    (pc = "done" /\ tag.kind = "kanji" /\ tag.n <= 999) => ret = str(tag.n)

\* C2: a non-empty string of full-width digits is returned as the same digits in
\* half-width form, position by position, with the same length.
C2_ZenkakuDigits ==
    (pc = "done" /\ tag.kind = "zenkaku") =>
        /\ Len(ret) = Len(arg)
        /\ \A i \in 1..Len(arg) :
              ret[i] \in 48..57 /\ ret[i] - 48 = arg[i] - 65296

C2_Witness ==
    pc = "done" /\ tag.kind = "zenkaku" /\ Len(arg) >= 2 /\ arg[1] = 65296 /\ ret[1] = 48

(***************************************************************************)
(* update_laws.py: the law registry and extract_laws_from_text             *)
(***************************************************************************)
LAWS == <<
    <<25152, 24471, 31246, 27861>>,
    <<27861, 20154, 31246, 27861>>,
    <<28040, 36027, 31246, 27861>>,
    <<30456, 32154, 31246, 27861>>,
    <<36104, 19982, 31246, 27861>>,
    <<22269, 31246, 36890, 21063, 27861>>,
    <<31199, 31246, 29305, 21029, 25514, 32622, 27861>>,
    <<22269, 31246, 24500, 21454, 27861>>,
    <<34892, 25919, 20107, 20214, 35380, 35359, 27861>>,
    <<21360, 32025, 31246, 27861>>,
    <<22320, 26041, 31246, 27861>>,
    <<30331, 37682, 20813, 35377, 31246, 27861>>,
    <<37202, 31246, 27861>>,
    <<22269, 31246, 29359, 21063, 21462, 32224, 27861>>,
    <<27665, 27861>>,
    <<20250, 31038, 27861>>,
    <<27665, 20107, 35380, 35359, 27861>>,
    <<21009, 27861>>,
    <<25010, 27861>>,
    <<25152, 24471, 31246, 27861, 26045, 34892, 20196>>,
    <<27861, 20154, 31246, 27861, 26045, 34892, 20196>>,
    <<28040, 36027, 31246, 27861, 26045, 34892, 20196>>,
    <<30456, 32154, 31246, 27861, 26045, 34892, 20196>>,
    <<31199, 31246, 29305, 21029, 25514, 32622, 27861, 26045, 34892, 20196>>,
    <<22269, 31246, 36890, 21063, 27861, 26045, 34892, 20196>>,
    <<25152, 24471, 31246, 27861, 26045, 34892, 35215, 21063>>,
    <<27861, 20154, 31246, 27861, 26045, 34892, 35215, 21063>>,
    <<28040, 36027, 31246, 27861, 26045, 34892, 35215, 21063>>,
    <<30456, 32154, 31246, 27861, 26045, 34892, 35215, 21063>>,
    <<31199, 31246, 29305, 21029, 25514, 32622, 27861, 26045, 34892, 35215, 21063>>,
    <<36001, 29987, 35413, 20385, 22522, 26412, 36890, 36948>>,
    <<27861, 20154, 31246, 22522, 26412, 36890, 36948>>,
    <<25152, 24471, 31246, 22522, 26412, 36890, 36948>>,
    <<28040, 36027, 31246, 27861, 22522, 26412, 36890, 36948>>
>>

\* the character class of NUM_PATTERN: [０-９0-9一二三四五六七八九十百]
NumChars ==
    (65296..65305) \cup (48..57)
        \cup {19968, 20108, 19977, 22235, 20116, 20845, 19971, 20843, 20061, 21313, 30334}
NUM_PATTERN == Plus(NumChars)

infer_main_law_from_title_last(title_) ==
    IF Contains(title_, <<36104, 19982, 31246>>) THEN <<36104, 19982, 31246, 27861>>
    ELSE IF Contains(title_, <<30456, 32154, 31246>>) THEN <<30456, 32154, 31246, 27861>>
    ELSE IF Contains(title_, <<28040, 36027, 31246>>) THEN <<28040, 36027, 31246, 27861>>
    ELSE IF Contains(title_, <<27861, 20154, 31246>>) THEN <<27861, 20154, 31246, 27861>>
    ELSE IF Contains(title_, <<25152, 24471, 31246>>) THEN <<25152, 24471, 31246, 27861>>
    ELSE <<>>

\* <<>> stands for None
infer_main_law_from_title(title_) ==
    IF Contains(title_, <<25152, 24471, 31246>>) THEN <<25152, 24471, 31246, 27861>>
    ELSE IF Contains(title_, <<27861, 20154, 31246>>) THEN <<27861, 20154, 31246, 27861>>
    ELSE IF Contains(title_, <<28040, 36027, 31246>>) THEN <<28040, 36027, 31246, 27861>>
    ELSE IF Contains(title_, <<30456, 32154, 31246>>) THEN <<30456, 32154, 31246, 27861>>
    ELSE IF Contains(title_, <<36104, 19982, 31246>>) THEN <<36104, 19982, 31246, 27861>>
    ELSE <<>>

\* （[^）]{0,100}）
BracketPattern == <<Lit(<<65288>>), Rep({65289}, TRUE, 0, 100, FALSE), Lit(<<65289>>)>>

\* the 第 of the pattern made mandatory
LawPattern_dai_required(law) ==
    <<Lit(law), Lit(<<31532>>), Open(1), NUM_PATTERN, Close(1), Lit(<<26465>>),
      Opt(<<Lit(<<12398>>), Open(2), NUM_PATTERN, Close(2)>>)>>

\* rf'{re.escape(law)}第?({NUM_PATTERN})条(?:の({NUM_PATTERN}))?'
LawPattern(law) ==
    <<Lit(law), Opt(<<Lit(<<31532>>)>>), Open(1), NUM_PATTERN, Close(1), Lit(<<26465>>),
      Opt(<<Lit(<<12398>>), Open(2), NUM_PATTERN, Close(2)>>)>>

\* r'<abbr>第?({num})条'
AbbrPattern(abbr) ==
    <<Lit(abbr), Opt(<<Lit(<<31532>>)>>), Open(1), NUM_PATTERN, Close(1), Lit(<<26465>>)>>

\* r'<abbr>({num})'
CircularPattern(abbr) == <<Lit(abbr), Open(1), NUM_PATTERN, Close(1)>>

abbreviations == <<
    [pattern |-> AbbrPattern(<<25152, 27861>>), law_name |-> <<25152, 24471, 31246, 27861>>],
    [pattern |-> AbbrPattern(<<27861, 27861>>), law_name |-> <<27861, 20154, 31246, 27861>>],
    [pattern |-> AbbrPattern(<<28040, 27861>>), law_name |-> <<28040, 36027, 31246, 27861>>],
    [pattern |-> AbbrPattern(<<30456, 27861>>), law_name |-> <<30456, 32154, 31246, 27861>>],
    [pattern |-> AbbrPattern(<<36890, 27861>>), law_name |-> <<22269, 31246, 36890, 21063, 27861>>],
    [pattern |-> AbbrPattern(<<36890, 21063, 27861>>), law_name |-> <<22269, 31246, 36890, 21063, 27861>>],
    [pattern |-> AbbrPattern(<<25514, 27861>>), law_name |-> <<31199, 31246, 29305, 21029, 25514, 32622, 27861>>],
    [pattern |-> AbbrPattern(<<25514, 32622, 27861>>), law_name |-> <<31199, 31246, 29305, 21029, 25514, 32622, 27861>>],
    [pattern |-> AbbrPattern(<<24500, 27861>>), law_name |-> <<22269, 31246, 24500, 21454, 27861>>],
    [pattern |-> AbbrPattern(<<24500, 21454, 27861>>), law_name |-> <<22269, 31246, 24500, 21454, 27861>>],
    [pattern |-> AbbrPattern(<<34892, 35380, 27861>>), law_name |-> <<34892, 25919, 20107, 20214, 35380, 35359, 27861>>],
    [pattern |-> AbbrPattern(<<27665, 35380, 27861>>), law_name |-> <<27665, 20107, 35380, 35359, 27861>>],
    [pattern |-> AbbrPattern(<<25152, 20196>>), law_name |-> <<25152, 24471, 31246, 27861, 26045, 34892, 20196>>],
    [pattern |-> AbbrPattern(<<27861, 20196>>), law_name |-> <<27861, 20154, 31246, 27861, 26045, 34892, 20196>>],
    [pattern |-> AbbrPattern(<<28040, 20196>>), law_name |-> <<28040, 36027, 31246, 27861, 26045, 34892, 20196>>],
    [pattern |-> AbbrPattern(<<30456, 20196>>), law_name |-> <<30456, 32154, 31246, 27861, 26045, 34892, 20196>>],
    [pattern |-> AbbrPattern(<<25514, 20196>>), law_name |-> <<31199, 31246, 29305, 21029, 25514, 32622, 27861, 26045, 34892, 20196>>],
    [pattern |-> AbbrPattern(<<25514, 32622, 27861, 26045, 34892, 20196>>), law_name |-> <<31199, 31246, 29305, 21029, 25514, 32622, 27861, 26045, 34892, 20196>>],
    [pattern |-> AbbrPattern(<<25152, 35215>>), law_name |-> <<25152, 24471, 31246, 27861, 26045, 34892, 35215, 21063>>],
    [pattern |-> AbbrPattern(<<27861, 35215>>), law_name |-> <<27861, 20154, 31246, 27861, 26045, 34892, 35215, 21063>>],
    [pattern |-> CircularPattern(<<35413, 22522, 36890>>), law_name |-> <<36001, 29987, 35413, 20385, 22522, 26412, 36890, 36948>>],
    [pattern |-> CircularPattern(<<27861, 22522, 36890>>), law_name |-> <<27861, 20154, 31246, 22522, 26412, 36890, 36948>>],
    [pattern |-> CircularPattern(<<25152, 22522, 36890>>), law_name |-> <<25152, 24471, 31246, 22522, 26412, 36890, 36948>>],
    [pattern |-> <<Lit(<<26085>>), Rep(WS, TRUE, 1, 10, FALSE)>> \o AbbrPattern(<<31199, 31246, 26465, 32004>>), law_name |-> <<31199, 31246, 26465, 32004>>],
    [pattern |-> AbbrPattern(<<31199, 31246, 26465, 32004>>), law_name |-> <<31199, 31246, 26465, 32004>>]
>>

\* the citation strings of the matches of LawPattern(pattern_law) in txt, named law
Citations(txt, pattern, law) ==
    {LET article == kanji_to_number(Group(txt, m, 1))
         sub == Group(txt, m, 2)
     IN  IF sub # <<>>
         THEN law \o article \o <<26465, 12398>> \o kanji_to_number(sub)
         ELSE law \o article \o <<26465>>
     : m \in Range(FindIter(txt, pattern, 0))}

\* the citations in descending order
RECURSIVE sorted_reverse(_)
sorted_reverse(found) ==
    IF found = {} THEN <<>>
    ELSE LET least == CHOOSE x \in found : \A y \in found : x = y \/ StrLess(x, y)
         IN  Append(sorted_reverse(found \ {least}), least)

\* sorted(list(found))
RECURSIVE sorted(_)
sorted(found) ==
    IF found = {} THEN <<>>
    ELSE LET least == CHOOSE x \in found : \A y \in found : x = y \/ StrLess(x, y)
         IN  <<least>> \o sorted(found \ {least})

\* the direct search: full law names in both texts, abbreviations in text_nobracket
DirectCitations(text_nospace, text_nobracket) ==
    UNION {Citations(text_nobracket, LawPattern(law), law)
               \cup Citations(text_nospace, LawPattern(law), law) : law \in Range(LAWS)}
    \cup UNION {{a.law_name \o kanji_to_number(Group(text_nobracket, m, 1)) \o <<26465>>
                    : m \in Range(FindIter(text_nobracket, a.pattern, 0))}
                : a \in Range(abbreviations)}

\* the 同法 search run whether or not the direct search found a citation
extract_laws_from_text_doho_always(text_, title_) ==
    LET main_law == infer_main_law_from_title(title_)
        text_nospace == StripSpace(text_)
        text_nobracket == RemoveAll(text_nospace, BracketPattern)
        found == DirectCitations(text_nospace, text_nobracket)
        doho == IF main_law # <<>>
                THEN Citations(text_nobracket, LawPattern(<<21516, 27861>>), main_law)
                ELSE {}
    IN  sorted(found \cup doho)

extract_laws_from_text(text_, title_) ==
    LET main_law == infer_main_law_from_title(title_)
        text_nospace == StripSpace(text_)
        text_nobracket == RemoveAll(text_nospace, BracketPattern)
        found == DirectCitations(text_nospace, text_nobracket)
        doho == IF main_law # <<>> /\ found = {}
                THEN Citations(text_nobracket, LawPattern(<<21516, 27861>>), main_law)
                ELSE {}
    IN  sorted(found \cup doho)

(***************************************************************************)
(* Inputs of extract_laws_from_text                                        *)
(***************************************************************************)
Cite(name, dai, run, sub) == name \o (IF dai THEN <<31532>> ELSE <<>>) \o run \o <<26465>> \o sub
Paren(t) == <<65288>> \o t \o <<65289>>

AbbrNames == {
    <<25152, 27861>>, <<27861, 27861>>, <<28040, 27861>>, <<30456, 27861>>, <<36890, 27861>>, <<36890, 21063, 27861>>, <<25514, 27861>>, <<25514, 32622, 27861>>, <<24500, 27861>>, <<24500, 21454, 27861>>,
    <<34892, 35380, 27861>>, <<27665, 35380, 27861>>, <<25152, 20196>>, <<27861, 20196>>, <<28040, 20196>>, <<30456, 20196>>, <<25514, 20196>>, <<25514, 32622, 27861, 26045, 34892, 20196>>, <<25152, 35215>>, <<27861, 35215>>,
    <<31199, 31246, 26465, 32004>>, <<26085, 31859, 31199, 31246, 26465, 32004>>}

LawTitles == {<<>>, <<25152, 24471, 31246, 26356, 27491, 20966, 20998, 21462, 28040, 35531, 27714, 20107, 20214>>, <<27861, 20154, 31246, 21450, 12403, 25152, 24471, 31246, 26356, 27491, 20966, 20998, 21462, 28040, 35531, 27714, 20107, 20214>>,
              <<30456, 32154, 31246, 26356, 27491, 20966, 20998, 21462, 28040, 35531, 27714, 25511, 35380, 20107, 20214>>, <<25613, 23475, 36064, 20767, 35531, 27714, 20107, 20214>>}

MaxRun == 2   \* numeral runs of 1..MaxRun characters are drawn from RunChars

\* one citation of every known name, in three numeral scripts, plain or in parentheses
SingleTexts ==
    {IF paren THEN <<21407, 21578, 12399, 12289>> \o Paren(Cite(name, dai, run, sub))
              ELSE Cite(name, dai, run, sub) \o <<12395, 12424, 12428, 12400>>
        : name \in Range(LAWS) \cup AbbrNames \cup {<<21516, 27861>>},
          dai \in BOOLEAN, run \in {<<51, 54>>, <<65299, 65302>>, <<19977, 21313, 20845>>},
          sub \in {<<>>, <<12398, 65298>>}, paren \in BOOLEAN}

\* every run of digits and kanji numerals as article number, with or without sub-article
RunChars == {65299, 54, 20108, 21313, 30334}
RunTexts ==
    {Cite(<<25152, 24471, 31246, 27861>>, TRUE, run, sub)
        : run \in Strings(RunChars, 1, MaxRun),
          sub \in {<<>>} \cup {<<12398>> \o r : r \in Strings(RunChars, 1, 1)}}

Units == {
    <<25152, 24471, 31246, 27861, 31532, 51, 54, 26465>>, <<25152, 24471, 31246, 27861, 65299, 65302, 26465>>, <<25152, 27861, 31532, 51, 54, 26465>>, <<25152, 24471, 31246, 27861, 31532, 19977, 21313, 20845, 26465, 12398, 65298>>, <<25152, 24471, 31246, 27861, 32, 31532, 51, 54, 26465, 32, 12398, 32, 50>>,
    <<25152, 24471, 31246, 27861, 26045, 34892, 20196, 31532, 51, 54, 26465>>, <<27861, 20154, 31246, 27861, 31532, 65298, 26465>>, <<27665, 27861, 31532, 65303, 65296, 65305, 26465>>, <<31199, 31246, 29305, 21029, 25514, 32622, 27861, 31532, 52, 49, 26465, 12398, 52>>, <<65288, 25514, 27861, 31532, 52, 49, 26465, 65289>>,
    <<25152, 24471, 31246, 27861, 65288, 26157, 21644, 65300, 65296, 24180, 27861, 24459, 31532, 65299, 65299, 21495, 12290, 20197, 19979, 21516, 12376, 12290, 65289, 31532, 51, 54, 26465>>, <<25152, 24471, 31246, 27861, 12398, 35215, 23450>>,
    <<21516, 27861, 31532, 52, 53, 26465>>, <<21516, 27861, 52, 53, 26465, 12398, 65298>>, <<65288, 21516, 27861, 31532, 52, 53, 26465, 65289>>, <<21516, 27861, 65288, 24179, 25104, 65297, 65304, 24180, 25913, 27491, 21069, 12398, 12418, 12398, 65289, 31532, 52, 53, 26465>>}

PairTexts == {u1 \o <<12289>> \o u2 : u1 \in Units, u2 \in Units}

DohoTexts == {t \in SingleTexts : Contains(t, <<21516, 27861>>)}

LawInputs ==
    {[text |-> t, title |-> <<>>] : t \in SingleTexts \cup RunTexts}
    \cup {[text |-> t, title |-> ti] : t \in DohoTexts \cup PairTexts, ti \in LawTitles}

InitLaws ==
    /\ pc = "in"
    /\ \E x \in LawInputs : text = x.text /\ title = x.title
    /\ laws = <<>>
    /\ arg = <<>> /\ tag = [kind |-> "none", n |-> 0] /\ ret = <<>>
    /\ issues = <<>> /\ applied = {}
    /\ sections = <<>> /\ cases = <<>> /\ idx = 0 /\ index = <<>> /\ html = <<>> /\ saved = "" /\ index_html = <<>>

CallExtractLaws ==
    /\ pc = "in"
    /\ laws' = extract_laws_from_text(text, title)
    /\ pc' = "done"
    /\ UNCHANGED <<arg, tag, ret, text, title, issues, applied, sections, cases, idx, index, html, saved, index_html>>

NextLaws == CallExtractLaws

SpecLaws == InitLaws /\ [][NextLaws]_vars

(***************************************************************************)
(* Statements about extract_laws_from_text                                 *)
(***************************************************************************)
HalfDigits == 48..57
FullDigits == 65296..65305

\* the kanji numerals below 1000 (multipliers 十, 百) and their decimal digits
CanonicalKanji ==
    {[run |-> KanjiNumeral(n, one), digits |-> str(n)] : n \in 1..999, one \in BOOLEAN}

\* the decimal digits a numeral denotes: a digit string position by position, a
\* kanji numeral by its value; <<>> when r is neither
NumeralDigits(r) ==
    IF r # <<>> /\ \A i \in 1..Len(r) : r[i] \in HalfDigits \cup FullDigits
    THEN [i \in 1..Len(r) |-> IF r[i] \in FullDigits THEN r[i] - 65296 + 48 ELSE r[i]]
    ELSE IF \E e \in CanonicalKanji : e.run = r
         THEN (CHOOSE e \in CanonicalKanji : e.run = r).digits
         ELSE <<>>

\* the offsets at which name occurs in t
Occurrences(t, name) ==
    {p \in 0..(Len(t) - Len(name)) : SubSeq(t, p + 1, p + Len(name)) = name}

\* what follows the name that occurs at offset p: optional 第, the numeral run, 条,
\* and the numeral run after の if any
CitedAt(t, p, name) ==
    LET q0 == p + Len(name)
        q == IF q0 < Len(t) /\ t[q0 + 1] = 31532 THEN q0 + 1 ELSE q0
        n == RunLen(t, q, NUM_PATTERN)
        e == q + n
        jo == e < Len(t) /\ t[e + 1] = 26465
        m == IF jo /\ e + 1 < Len(t) /\ t[e + 2] = 12398 THEN RunLen(t, e + 2, NUM_PATTERN) ELSE 0
    IN  [ok |-> n > 0 /\ jo, run |-> SubSeq(t, q + 1, q + n), sub |-> SubSeq(t, e + 3, e + 2 + m)]

\* offset p of t lies outside every parenthetical
Outside(t, p) ==
    Cardinality({i \in 1..p : t[i] = 65288}) = Cardinality({i \in 1..p : t[i] = 65289})

IsDigits(r) == r # <<>> /\ \A i \in 1..Len(r) : r[i] \in HalfDigits

CitationNames == Range(LAWS) \cup {<<31199, 31246, 26465, 32004>>}

\* c is LawName + digits + 条, optionally followed by の + digits
IsCitation(c) ==
    \E name \in CitationNames :
        /\ Len(c) > Len(name) /\ SubSeq(c, 1, Len(name)) = name
        /\ LET r == SubSeq(c, Len(name) + 1, Len(c))
           IN  \E k \in 1..(Len(r) - 1) :
                  /\ IsDigits(SubSeq(r, 1, k))
                  /\ r[k + 1] = 26465
                  /\ \/ Len(r) = k + 1
                     \/ r[k + 2] = 12398 /\ IsDigits(SubSeq(r, k + 3, Len(r)))

\* C3: every returned citation is LawName + digits + 条 [+ の + digits] with
\* non-empty half-width digit strings, whatever scripts the numeral runs mixed.
C3_CitationShape ==
    pc = "done" => \A i \in 1..Len(laws) : IsCitation(laws[i])

C3_Witness ==
    /\ pc = "done"
    /\ text = <<25152, 24471, 31246, 27861, 31532, 21313, 65299, 26465, 12398, 30334>>
    /\ laws = <<<<25152, 24471, 31246, 27861, 49, 48, 26465, 12398, 49, 48, 48>>>>

\* C4: for every law name L of LAWS and numeral n, a text that contains L, an
\* optional 第, n and 条 outside any parenthetical yields a list containing L n 条.
C4_DirectCitation ==
    pc = "done" =>
        \A L \in Range(LAWS) : \A p \in Occurrences(text, L) :
            LET c == CitedAt(text, p, L)
            IN  (c.ok /\ Outside(text, p) /\ NumeralDigits(c.run) # <<>>)
                    => (L \o NumeralDigits(c.run) \o <<26465>>) \in Range(laws)

\* C4 as amended: the citation L n 条 is returned when the 条 is not followed by の
\* and a numeral; when it is followed by の and a numeral m, L n 条の m is returned
\* (whitespace removed; inside parentheticals as well as outside).
C4_DirectCitationOrSub ==
    pc = "done" =>
        LET t == StripSpace(text)
        IN  \A L \in Range(LAWS) : \A p \in Occurrences(t, L) :
                LET c == CitedAt(t, p, L)
                    n == NumeralDigits(c.run)
                    m == NumeralDigits(c.sub)
                IN  (c.ok /\ n # <<>>) =>
                        /\ c.sub = <<>> => (L \o n \o <<26465>>) \in Range(laws)
                        /\ m # <<>> => (L \o n \o <<26465, 12398>> \o m) \in Range(laws)

C4_Witness ==
    /\ pc = "done"
    /\ Contains(text, <<65288, 28040, 36027, 31246, 27861, 19977, 21313, 20845, 26465, 65289>>)
    /\ laws = <<<<28040, 36027, 31246, 27861, 51, 54, 26465>>>>

\* the keyword -> law table of the title, in the order the keywords are tested
TitleKeywords == <<
    [kw |-> <<25152, 24471, 31246>>, law |-> <<25152, 24471, 31246, 27861>>], [kw |-> <<27861, 20154, 31246>>, law |-> <<27861, 20154, 31246, 27861>>],
    [kw |-> <<28040, 36027, 31246>>, law |-> <<28040, 36027, 31246, 27861>>], [kw |-> <<30456, 32154, 31246>>, law |-> <<30456, 32154, 31246, 27861>>],
    [kw |-> <<36104, 19982, 31246>>, law |-> <<36104, 19982, 31246, 27861>>]>>

\* the law of the first keyword of the table the title contains; <<>> if none
FirstKeywordLaw(ti) ==
    LET hit(k) == Contains(ti, TitleKeywords[k].kw)
        k0 == First(1, Len(TitleKeywords), hit)
    IN  IF k0 > Len(TitleKeywords) THEN <<>> ELSE TitleKeywords[k0].law

\* t contains a registry law name or an abbreviation followed by an article number
HasDirectCitation(t) ==
    \/ \E law \in Range(LAWS) : Search(t, LawPattern(law), 0).ok
    \/ \E a \in Range(abbreviations) : Search(t, a.pattern, 0).ok

C6_SortedNoDuplicates ==
    pc = "done" => \A i \in 1..(Len(laws) - 1) : StrLess(laws[i], laws[i + 1])

\* the same article matched as full name, as abbreviation and inside a bracket note
C6_Witness ==
    /\ pc = "done"
    /\ text = <<27665, 27861, 31532, 65303, 65296, 65305, 26465, 12289, 25152, 24471, 31246, 27861, 65288, 26157, 21644, 65300, 65296, 24180, 27861, 24459, 31532, 65299, 65299, 21495, 12290, 20197, 19979, 21516, 12376, 12290, 65289, 31532, 51, 54, 26465>>
    /\ laws = <<<<25152, 24471, 31246, 27861, 51, 54, 26465>>, <<27665, 27861, 55, 48, 57, 26465>>>>

(***************************************************************************)
(* fix_tax_issue.py: extract_issues                                        *)
(***************************************************************************)
\* re.sub(r'[ 　]+', ' ', s)
CollapseBlanks(s) ==
    LET blank(p) == s[p] \in {32, 12288}
        keep == SelectSeq([p \in 1..Len(s) |-> p], LAMBDA p : ~blank(p) \/ p = 1 \/ ~blank(p - 1))
    IN  [k \in 1..Len(keep) |-> IF blank(keep[k]) THEN 32 ELSE s[keep[k]]]

\* s.strip()
Strip(s) ==
    IF \A p \in 1..Len(s) : s[p] \in WS THEN <<>>
    ELSE LET a == CHOOSE p \in 1..Len(s) : s[p] \notin WS /\ \A q \in 1..(p - 1) : s[q] \in WS
             b == CHOOSE p \in 1..Len(s) : s[p] \notin WS /\ \A q \in (p + 1)..Len(s) : s[q] \in WS
         IN  SubSeq(s, a, b)

\* re.findall(nodes, s) for a pattern with one group
FindAll(s, nodes) ==
    LET ms == FindIter(s, nodes, 0) IN [k \in 1..Len(ms) |-> Group(s, ms[k], 1)]

\* [re.sub(r'\s+', '', m.strip()) for m in ms]
Squeezed(ms) == [k \in 1..Len(ms) |-> StripSpace(Strip(ms[k]))]

\* [m.strip() for m in ms]
Stripped(ms) == [k \in 1..Len(ms) |-> Strip(ms[k])]

AnyLazy == Rep({}, TRUE, 0, -1, TRUE)
ParenOpen == {65288, 40}
ParenClose == {65289, 41}
Digits19 == (65297..65305) \cup (48..57)          \* [１２３４５６７８９0-9]
Digits09 == (65296..65305) \cup (48..57)          \* [０-９0-9]
Kanji19 == {19968, 20108, 19977, 22235, 20116, 20845, 19971, 20843, 20061}

\* patterns_section
patterns_section == <<
    \* (?:主な)?争点\s*[^\n]*\n(.*?)(?:主な争点に関する当事者|当事者の主張|第[３4４]|[４4]\s)
    <<Opt(<<Lit(<<20027, 12394>>)>>), Lit(<<20105, 28857>>), Star(WS), NotStar({10}), Lit(<<10>>),
      Open(1), AnyLazy, Close(1),
      Alt(<< <<Lit(<<20027, 12394, 20105, 28857, 12395, 38306, 12377, 12427, 24403, 20107, 32773>>)>>, <<Lit(<<24403, 20107, 32773, 12398, 20027, 24373>>)>>,
             <<Lit(<<31532>>), One({65299, 52, 65300})>>, <<One({65300, 52}), One(WS)>> >>)>>,
    \* [３3]\s*(?:主な)?争点\s*[^\n]*\n?(.*?)(?:[４4]\s|第[３3])
    <<One({65299, 51}), Star(WS), Opt(<<Lit(<<20027, 12394>>)>>), Lit(<<20105, 28857>>), Star(WS), NotStar({10}),
      Opt(<<Lit(<<10>>)>>), Open(1), AnyLazy, Close(1),
      Alt(<< <<One({65300, 52}), One(WS)>>, <<Lit(<<31532>>), One({65299, 51})>> >>)>> >>

\* [（\(][０-９0-9一二三四五六七八九十]+[）\)]\s*([^（\(\n]{5,150})
SectionItemPattern ==
    <<One(ParenOpen), Plus(Digits09 \cup Kanji19 \cup {21313}), One(ParenClose), Star(WS),
      Open(1), Rep(ParenOpen \cup {10}, TRUE, 5, 150, FALSE), Close(1)>>

\* the issues one section pattern yields (lines 137-149)
SectionIssues(text_norm, pattern) ==
    LET match == Search(text_norm, pattern, 0)
    IN  IF ~match.ok THEN <<>>
        ELSE SelectSeq(Squeezed(FindAll(Group(text_norm, match, 1), SectionItemPattern)),
                       LAMBDA issue_text : issue_text # <<>> /\ Len(issue_text) >= 5)

\* the first of the patterns from the k-th on that yields issues ("if issues: break")
RECURSIVE FirstYield(_, _, _)
FirstYield(text_norm, patterns, k) ==
    IF k > Len(patterns) THEN <<>>
    ELSE LET found == SectionIssues(text_norm, patterns[k])
         IN  IF found # <<>> THEN found ELSE FirstYield(text_norm, patterns, k + 1)

\* pattern 1
Pattern1(text_norm) == FirstYield(text_norm, patterns_section, 1)

\* 争点(?:及び[^\n]*)?(?:主張|の主張)[^\n]*\n(.*?)(?:第[３4４]|当裁判所の判断)
patterns_numbered == <<
    <<Lit(<<20105, 28857>>), Opt(<<Lit(<<21450, 12403>>), NotStar({10})>>),
      Alt(<< <<Lit(<<20027, 24373>>)>>, <<Lit(<<12398, 20027, 24373>>)>> >>), NotStar({10}), Lit(<<10>>),
      Open(1), AnyLazy, Close(1),
      Alt(<< <<Lit(<<31532>>), One({65299, 52, 65300})>>, <<Lit(<<24403, 35009, 21028, 25152, 12398, 21028, 26029>>)>> >>)>> >>

\* (?:^|\n)\s*[１２３４５６７８９0-9]+\s+([^\n（]{10,150})
NumberedItemPattern ==
    <<Alt(<< <<Bol>>, <<Lit(<<10>>)>> >>), Star(WS), Plus(Digits19), Plus(WS),
      Open(1), Rep({10, 65288}, TRUE, 10, 150, FALSE), Close(1)>>

\* ^[（\(]?[被原]告の主張
PartyClaimPattern == <<Opt(<<One(ParenOpen)>>), One({34987, 21407}), Lit(<<21578, 12398, 20027, 24373>>)>>

NumberedIssues(text_norm, pattern) ==
    LET match == Search(text_norm, pattern, 0)
    IN  IF ~match.ok THEN <<>>
        ELSE SelectSeq(Squeezed(FindAll(Group(text_norm, match, 1), NumberedItemPattern)),
                       LAMBDA issue_text :
                           /\ issue_text # <<>> /\ Len(issue_text) >= 10
                           /\ ~Match(issue_text, PartyClaimPattern, 0, NoGroups).ok)

\* pattern 2: the loop over patterns_numbered, a list of one
Pattern2(text_norm) == NumberedIssues(text_norm, patterns_numbered[1])

\* 争点[１２３４５６７８９0-9][（\(]([^）\)]{10,150})[）\)]
InlinePattern1 ==
    <<Lit(<<20105, 28857>>), One(Digits19), One(ParenOpen),
      Open(1), Rep(ParenClose, TRUE, 10, 150, FALSE), Close(1), One(ParenClose)>>

\* 争点[（\(][０-９0-9一二三四五六七八九]+[）\)][^\n]{0,30}?([^）\)]{10,100})
InlinePattern2 ==
    <<Lit(<<20105, 28857>>), One(ParenOpen), Plus(Digits09 \cup Kanji19), One(ParenClose),
      Rep({10}, TRUE, 0, 30, TRUE), Open(1), Rep(ParenClose, TRUE, 10, 100, FALSE), Close(1)>>

InlineIssues(text_nospace, pattern) ==
    SelectSeq(Stripped(FindAll(text_nospace, pattern)),
              LAMBDA issue_text : issue_text # <<>> /\ Len(issue_text) >= 10)

\* pattern 3: 争点１（...）, and 争点（１）... when that yields nothing
Pattern3(text_nospace) ==
    LET found == InlineIssues(text_nospace, InlinePattern1)
    IN  IF found # <<>> THEN found ELSE InlineIssues(text_nospace, InlinePattern2)

\* the one issue of a declarative pattern: group 1, stripped of whitespace
Declared(text_norm, pattern, prefix) ==
    LET match == Search(text_norm, pattern, 0)
        issue_text == prefix \o StripSpace(Strip(Group(text_norm, match, 1)))
    IN  IF match.ok /\ issue_text # <<>> THEN <<issue_text>> ELSE <<>>

OptComma == Opt(<<One({12289, 44})>>)

\* pattern 4 with a lazy group: the issue ends at the first である or か否か
Pattern4_lazy(text_norm) ==
    Declared(text_norm,
             <<Opt(<<Lit(<<26412, 20214, 12398>>)>>), Opt(<<Lit(<<20027, 12394>>)>>), Lit(<<20105, 28857, 12399>>), OptComma, Star(WS),
               Open(1), Rep({12290}, TRUE, 10, 200, TRUE), Close(1),
               Alt(<< <<Lit(<<12391, 12354, 12427>>)>>, <<Lit(<<12363, 21542, 12363>>)>> >>)>>,
             <<>>)

\* pattern 4: (?:本件の)?(?:主な)?争点は[、,]?\s*([^。]{10,200})(?:である|か否か)
Pattern4(text_norm) ==
    Declared(text_norm,
             <<Opt(<<Lit(<<26412, 20214, 12398>>)>>), Opt(<<Lit(<<20027, 12394>>)>>), Lit(<<20105, 28857, 12399>>), OptComma, Star(WS),
               Open(1), Rep({12290}, TRUE, 10, 200, FALSE), Close(1),
               Alt(<< <<Lit(<<12391, 12354, 12427>>)>>, <<Lit(<<12363, 21542, 12363>>)>> >>)>>,
             <<>>)

\* pattern 5: 争点\s*本件([^（\(。]{10,150})
Pattern5(text_norm) ==
    Declared(text_norm,
             <<Lit(<<20105, 28857>>), Star(WS), Lit(<<26412, 20214>>),
               Open(1), Rep(ParenOpen \cup {12290}, TRUE, 10, 150, FALSE), Close(1)>>,
             <<26412, 20214>>)

\* pattern 6: 争点\s*本件[^（]*[（\(]具体的には[、,]?\s*([^）\)]{10,200})[）\)]
Pattern6(text_norm) ==
    Declared(text_norm,
             <<Lit(<<20105, 28857>>), Star(WS), Lit(<<26412, 20214>>), NotStar({65288}), One(ParenOpen),
               Lit(<<20855, 20307, 30340, 12395, 12399>>), OptComma, Star(WS),
               Open(1), Rep(ParenClose, TRUE, 10, 200, FALSE), Close(1), One(ParenClose)>>,
             <<>>)

\* pattern 7: 本件の?争点は[、,]?\s*([^。]{10,200})(?:である|か否か|とされる)
Pattern7(text_norm) ==
    Declared(text_norm,
             <<Lit(<<26412, 20214>>), Opt(<<Lit(<<12398>>)>>), Lit(<<20105, 28857, 12399>>), OptComma, Star(WS),
               Open(1), Rep({12290}, TRUE, 10, 200, FALSE), Close(1),
               Alt(<< <<Lit(<<12391, 12354, 12427>>)>>, <<Lit(<<12363, 21542, 12363>>)>>, <<Lit(<<12392, 12373, 12428, 12427>>)>> >>)>>,
             <<>>)

NotStop(lo, hi) == Rep({12290}, TRUE, lo, hi, FALSE)   \* [^。]{lo,hi}

\* the marker when one of the patterns is found in the text
Marker(text_nospace, patterns, marker) ==
    IF \E k \in 1..Len(patterns) : Search(text_nospace, patterns[k], 0).ok
    THEN <<marker>> ELSE <<>>

citation_patterns == <<
    <<Lit(<<20105, 28857>>), NotStop(0, 100), Lit(<<21407, 21028, 27770>>), NotStop(0, 50), Lit(<<24341, 29992>>)>>,
    <<Lit(<<21407, 21028, 27770>>), NotStop(0, 50), Lit(<<20105, 28857>>), NotStop(0, 100), Lit(<<24341, 29992>>)>>,
    <<Lit(<<20105, 28857>>), NotStop(0, 50), Lit(<<24341, 29992>>)>> >>

\* pattern 8
Pattern8(text_nospace) ==
    IF Contains(text_nospace, <<21407, 21028, 27770>>) /\ Contains(text_nospace, <<24341, 29992>>)
    THEN Marker(text_nospace, citation_patterns, <<65288, 21407, 21028, 27770, 24341, 29992, 65289>>)
    ELSE <<>>

dismissal_patterns == <<
    <<Lit(<<26412, 20214, 12434, 19978, 21578, 23529, 12392, 12375, 12390, 21463, 29702, 12375, 12394, 12356>>)>>,
    <<Lit(<<27665, 35380, 27861, 65299, 65297, 65304, 26465, 65297, 38917, 12395, 12424, 12426, 21463, 29702, 12377, 12409, 12365, 12418, 12398, 12392, 12399, 35469, 12417, 12425, 12428, 12394, 12356>>)>>,
    <<Lit(<<26412, 20214, 19978, 21578, 12434, 26820, 21364, 12377, 12427>>)>> >>

\* pattern 9
Pattern9(text_nospace) == Marker(text_nospace, dismissal_patterns, <<65288, 19978, 21578, 21463, 29702, 30003, 31435, 21364, 19979, 65289>>)

broader_citation_patterns == <<
    <<Lit(<<24403, 20107, 32773, 12398, 20027, 24373, 12399>>), NotStop(0, -1), Lit(<<21407, 21028, 27770>>), NotStop(0, -1), Lit(<<24341, 29992>>)>>,
    <<Lit(<<21069, 25552, 20107, 23455>>), NotStop(0, -1), Lit(<<21407, 21028, 27770>>), NotStop(0, -1), Lit(<<24341, 29992>>)>>,
    <<Lit(<<20107, 23455, 21450, 12403, 29702, 30001>>), NotStop(0, -1), Lit(<<21407, 21028, 27770>>), NotStop(0, -1), Lit(<<24341, 29992>>)>>,
    <<Lit(<<21407, 21028, 27770>>), NotStop(0, -1), Lit(<<12398, 12392, 12362, 12426>>), NotStop(0, -1), Lit(<<24341, 29992>>)>> >>

\* pattern 10
Pattern10(text_nospace) == Marker(text_nospace, broader_citation_patterns, <<65288, 21407, 21028, 27770, 24341, 29992, 65289>>)

\* pattern 11: 訴訟要件に関する|訴えの適法性|訴えの利益
Pattern11(text_nospace) ==
    Marker(text_nospace,
           << <<Alt(<< <<Lit(<<35380, 35359, 35201, 20214, 12395, 38306, 12377, 12427>>)>>, <<Lit(<<35380, 12360, 12398, 36969, 27861, 24615>>)>>, <<Lit(<<35380, 12360, 12398, 21033, 30410>>)>> >>)>> >>,
           <<65288, 35380, 35359, 35201, 20214, 65289>>)

\* pattern 12: 本件は[、,]\s*([^。]{20,200}?)(?:として|ものとして|旨)[^。]*?(?:事案|求める)
Pattern12(text_norm) ==
    LET match == Search(text_norm,
                        <<Lit(<<26412, 20214, 12399>>), One({12289, 44}), Star(WS),
                          Open(1), Rep({12290}, TRUE, 20, 200, TRUE), Close(1),
                          Alt(<< <<Lit(<<12392, 12375, 12390>>)>>, <<Lit(<<12418, 12398, 12392, 12375, 12390>>)>>, <<Lit(<<26088>>)>> >>),
                          Rep({12290}, TRUE, 0, -1, TRUE),
                          Alt(<< <<Lit(<<20107, 26696>>)>>, <<Lit(<<27714, 12417, 12427>>)>> >>)>>,
                        0)
        issue_text == StripSpace(Strip(Group(text_norm, match, 1)))
    IN  IF match.ok /\ Len(issue_text) >= 15
        THEN <<SubSeq(issue_text, 1, IF Len(issue_text) < 100 THEN Len(issue_text) ELSE 100)>>
        ELSE <<>>

\* what pattern k appends to issues
Pattern(k, text_) ==
    LET text_norm == CollapseBlanks(text_)
        text_nospace == StripSpace(text_)
    IN  CASE k = 1 -> Pattern1(text_norm)
          [] k = 2 -> Pattern2(text_norm)
          [] k = 3 -> Pattern3(text_nospace)
          [] k = 4 -> Pattern4(text_norm)
          [] k = 5 -> Pattern5(text_norm)
          [] k = 6 -> Pattern6(text_norm)
          [] k = 7 -> Pattern7(text_norm)
          [] k = 8 -> Pattern8(text_nospace)
          [] k = 9 -> Pattern9(text_nospace)
          [] k = 10 -> Pattern10(text_nospace)
          [] k = 11 -> Pattern11(text_nospace)
          [] k = 12 -> Pattern12(text_norm)

\* pattern 1 always runs; patterns 2..12 run under "if not issues"
RunsPattern(k, found) == k = 1 \/ found = <<>>

\* the patterns k..12 in turn: the issues list and the patterns that appended to it
RECURSIVE Cascade(_, _, _)
Cascade(k, text_, acc) ==
    IF k > 12 THEN acc
    ELSE LET new == IF RunsPattern(k, acc.issues) THEN Pattern(k, text_) ELSE <<>>
         IN  Cascade(k + 1, text_,
                     [issues |-> acc.issues \o new,
                      applied |-> IF new = <<>> THEN acc.applied ELSE acc.applied \cup {k}])

\* the loop over issues with no length test
RECURSIVE Unique_no_min(_, _)
Unique_no_min(list, seen) ==
    IF list = <<>> THEN <<>>
    ELSE LET i == Head(list)
             normalized == StripSpace(i)
         IN  IF normalized \notin seen
             THEN <<i>> \o Unique_no_min(Tail(list), seen \cup {normalized})
             ELSE Unique_no_min(Tail(list), seen)

\* the loop that removes duplicates (lines 302-309)
RECURSIVE Unique(_, _)
Unique(list, seen) ==
    IF list = <<>> THEN <<>>
    ELSE LET i == Head(list)
             normalized == StripSpace(i)
         IN  IF normalized \notin seen /\ Len(normalized) >= 5
             THEN <<i>> \o Unique(Tail(list), seen \cup {normalized})
             ELSE Unique(Tail(list), seen)

\* the list returned whole
First10_all(list) == list

\* unique_issues[:10]
First10(list) == SubSeq(list, 1, IF Len(list) < 10 THEN Len(list) ELSE 10)

\* the issues list before the duplicates are removed, and who appended to it
Collected(text_) == Cascade(1, text_, [issues |-> <<>>, applied |-> {}])

extract_issues(text_) == First10(Unique(Collected(text_).issues, {}))

(***************************************************************************)
(* Inputs of extract_issues                                                *)
(***************************************************************************)
MaxItems == 13   \* an issues section lists 0..MaxItems numbered clauses

FullWidth(s) == [i \in 1..Len(s) |-> s[i] - 48 + 65296]

\* the j-th clause; with a blank inside when spaced
Clause(j, spaced) ==
    <<26412, 20214, 20966, 20998>> \o (IF spaced THEN <<32>> ELSE <<>>) \o KanjiNumeral(j, FALSE) \o <<12398, 36969, 27861, 24615>>

\* （k）clause\n for k = 1..n; with dup, item 3 repeats clause 2 with a blank inside
RECURSIVE Items(_, _)
Items(n, dup) ==
    IF n = 0 THEN <<>>
    ELSE Items(n - 1, dup) \o <<65288>> \o FullWidth(str(n)) \o <<65289>>
            \o (IF dup /\ n = 3 THEN Clause(2, TRUE) ELSE Clause(n, FALSE))
            \o <<10>>

SectionTexts ==
    {before \o header \o Items(n, dup) \o after :
        before \in {<<>>, <<24403, 20107, 32773, 12398, 20027, 24373, 12399, 21407, 21028, 27770, 12434, 24341, 29992, 12377, 12427, 12290, 10>>, <<26412, 20214, 19978, 21578, 12434, 26820, 21364, 12377, 12427, 12290, 10>>},
        header \in {<<20027, 12394, 20105, 28857, 10>>, <<65299, 12288, 20105, 28857, 32, 10>>},
        n \in 0..MaxItems, dup \in BOOLEAN,
        after \in {<<>>, <<31532, 65299, 32, 24403, 35009, 21028, 25152, 12398, 21028, 26029>>, <<65300, 32, 24403, 20107, 32773, 12398, 20027, 24373>>}}

\* the section of the worked example
ExampleSection == <<20027, 12394, 20105, 28857, 10, 65288, 65297, 65289, 26412, 20214, 35698, 28193, 12364, 35698, 28193, 25152, 24471, 12395, 35442, 24403, 12377, 12427, 12363, 10, 65288, 65298, 65289, 24517, 35201, 32076, 36027, 12398, 31684, 22258>>

ExampleTexts ==
    {before \o ExampleSection \o after :
        before \in {<<>>, <<31532, 65298, 32, 20107, 26696, 12398, 27010, 35201, 10>>},
        after \in {<<>>, <<10>>, <<10, 31532, 65299, 32, 24403, 35009, 21028, 25152, 12398, 21028, 26029>>, <<10, 65299, 32, 24403, 20107, 32773, 12398, 20027, 24373, 10>>}}

Fill(m) == [i \in 1..m |-> 12354]

\* declarative forms around a clause of m characters
LongTexts ==
    UNION {{<<20105, 28857, 12399, 12289>> \o Fill(m) \o <<12363, 21542, 12363, 12391, 12354, 12427, 12290>>, <<20105, 28857, 32, 26412, 20214>> \o Fill(m) \o <<12290>>,
            <<20105, 28857, 32, 26412, 20214, 20107, 26696, 65288, 20855, 20307, 30340, 12395, 12399, 12289>> \o Fill(m) \o <<65289>>, <<26412, 20214, 12398, 20105, 28857, 12399, 12289>> \o Fill(m) \o <<12392, 12373, 12428, 12427, 12290>>,
            <<26412, 20214, 12399, 12289>> \o Fill(m) \o <<12392, 12375, 12390, 27714, 12417, 12427, 12290>>, <<20105, 28857, 65297, 65288>> \o Fill(m) \o <<65289>>, <<20105, 28857, 65288, 65297, 65289>> \o Fill(m) \o <<65289>>}
           : m \in {4, 9, 10, 14, 20, 100, 101, 150, 151, 200, 201}}

Snippets == {
    <<65298, 32, 20105, 28857, 21450, 12403, 12371, 12428, 12395, 38306, 12377, 12427, 24403, 20107, 32773, 12398, 20027, 24373, 10, 65297, 32, 26412, 20214, 21508, 20966, 20998, 12398, 36969, 27861, 24615, 12395, 12388, 12356, 12390, 10, 65288, 21407, 21578, 12398, 20027, 24373, 65289, 10, 65298, 32, 34987, 21578, 12398, 20027, 24373, 12395, 12388, 12356, 12390, 26908, 35342, 12377, 12427, 10, 31532, 65299, 32, 24403, 35009, 21028, 25152, 12398, 21028, 26029, 10>>,
    <<26412, 20214, 12398, 20105, 28857, 65297, 65288, 26412, 20214, 26356, 27491, 20966, 20998, 12395, 29702, 30001, 20184, 35352, 12398, 19981, 20633, 12364, 12354, 12427, 12363, 65289, 12395, 12388, 12356, 12390>>,
    <<20105, 28857, 65288, 65297, 65289, 12395, 12388, 12356, 12390, 12289, 26412, 20214, 35698, 28193, 12364, 36039, 29987, 12398, 35698, 28193, 12395, 24403, 12383, 12427, 12363, 12364, 21839, 38988, 12392, 12394, 12427, 65289>>,
    <<20105, 28857, 12399, 12289, 26412, 20214, 35698, 28193, 25152, 24471, 12398, 24517, 35201, 32076, 36027, 12398, 31684, 22258, 12363, 21542, 12363, 12391, 12354, 12427, 12290>>,
    <<20105, 28857, 12399, 12289, 97, 10, 10, 10, 10, 10, 10, 10, 10, 10, 98, 12391, 12354, 12427, 12290>>,
    <<20105, 28857, 32, 26412, 20214, 21508, 26356, 27491, 20966, 20998, 12398, 36969, 27861, 24615, 21450, 12403, 26412, 20214, 36070, 35506, 27770, 23450, 20966, 20998, 12398, 36969, 27861, 24615, 12290>>,
    <<20105, 28857, 32, 26412, 20214, 20966, 20998, 12398, 36969, 27861, 24615, 65288, 20855, 20307, 30340, 12395, 12399, 12289, 26412, 20214, 25903, 20986, 12364, 24517, 35201, 32076, 36027, 12395, 24403, 12383, 12427, 12363, 21542, 12363, 65289>>,
    <<26412, 20214, 12398, 20105, 28857, 12399, 12289, 26412, 20214, 25903, 20986, 12364, 20132, 38555, 36027, 31561, 12395, 35442, 24403, 12377, 12427, 12392, 12373, 12428, 12427, 28857, 12395, 12354, 12427, 12290>>,
    <<20105, 28857, 12395, 12388, 12356, 12390, 12399, 21407, 21028, 27770, 12398, 35352, 36617, 12434, 24341, 29992, 12377, 12427, 12290>>,
    <<26412, 20214, 19978, 21578, 12434, 26820, 21364, 12377, 12427, 12290>>,
    <<24403, 20107, 32773, 12398, 20027, 24373, 12399, 12289, 21407, 21028, 27770, 12398, 20107, 23455, 21450, 12403, 29702, 30001, 12395, 35352, 36617, 12398, 12392, 12362, 12426, 12391, 12354, 12427, 12363, 12425, 12289, 12371, 12428, 12434, 24341, 29992, 12377, 12427, 12290>>,
    <<26412, 20214, 35380, 12360, 12399, 35380, 12360, 12398, 21033, 30410, 12434, 27424, 12367, 12290>>,
    <<26412, 20214, 12399, 12289, 21407, 21578, 12364, 25152, 24471, 31246, 12398, 26356, 27491, 20966, 20998, 12434, 21463, 12369, 12383, 12371, 12392, 12434, 19981, 26381, 12392, 12375, 12390, 12289, 12381, 12398, 21462, 28040, 12375, 12434, 27714, 12417, 12427, 20107, 26696, 12391, 12354, 12427, 12290>>,
    <<20027, 32, 25991, 10, 26412, 20214, 25511, 35380, 12434, 26820, 21364, 12377, 12427, 12290, 10>>}

SnippetTexts == {a \o b : a \in Snippets \cup {<<>>}, b \in Snippets \cup {<<>>}}

IssueInputs == SectionTexts \cup ExampleTexts \cup LongTexts \cup SnippetTexts

InitIssues ==
    /\ pc = "in"
    /\ text \in IssueInputs
    /\ issues = <<>> /\ applied = {}
    /\ title = <<>> /\ laws = <<>>
    /\ arg = <<>> /\ tag = [kind |-> "none", n |-> 0] /\ ret = <<>>
    /\ sections = <<>> /\ cases = <<>> /\ idx = 0 /\ index = <<>> /\ html = <<>> /\ saved = "" /\ index_html = <<>>

CallExtractIssues ==
    /\ pc = "in"
    /\ \E collected \in {Collected(text)} :
           /\ issues' = First10(Unique(collected.issues, {}))
           /\ applied' = collected.applied
    /\ pc' = "done"
    /\ UNCHANGED <<arg, tag, ret, text, title, laws, sections, cases, idx, index, html, saved, index_html>>

NextIssues == CallExtractIssues

SpecIssues == InitIssues /\ [][NextIssues]_vars


(***************************************************************************)
(* Statements about extract_issues                                         *)
(***************************************************************************)
Normalized(i) == StripSpace(i)      \* re.sub(r'\s+', '', i)

\* C7: for a text that contains 主な争点 / （１）本件譲渡が譲渡所得に該当するか /
\* （２）必要経費の範囲 on successive lines, extract_issues returns exactly the
\* two clauses, in order.
C7_ExampleSection ==
    (pc = "done" /\ Contains(text, ExampleSection))
        => issues = <<<<26412, 20214, 35698, 28193, 12364, 35698, 28193, 25152, 24471, 12395, 35442, 24403, 12377, 12427, 12363>>, <<24517, 35201, 32076, 36027, 12398, 31684, 22258>>>>

\* C8: the returned list has at most 10 elements, and no two of them have the
\* same whitespace-normalized form.
C8_AtMostTenDistinct ==
    pc = "done" =>
        /\ Len(issues) <= 10
        /\ \A i, j \in 1..Len(issues) : Normalized(issues[i]) = Normalized(issues[j]) => i = j

\* a section of more than ten distinct clauses, one of them listed twice:
\* the duplicate was dropped and the list was cut at ten
C8_Witness ==
    /\ pc = "done" /\ Len(issues) = 10
    /\ LET found == Collected(text).issues
       IN  /\ Len(Unique(found, {})) > 10
           /\ \E i, j \in 1..Len(found) : i # j /\ Normalized(found[i]) = Normalized(found[j])

WellFormedSection(t) ==
    \E n \in 1..MaxItems, dup \in BOOLEAN : Contains(t, <<20027, 12394, 20105, 28857, 10>> \o Items(n, dup))

\* C10: extract_issues is a first-match cascade: once a strategy has yielded an
\* issue no later strategy is applied, so the output comes from the single
\* earliest strategy that matched; and a text with a well-formed issues
\* section never returns a sentinel marker (strategies 8 to 11) or the
\* case-description fallback (strategy 12).
C10_FirstMatchCascade ==
    pc = "done" =>
        /\ Cardinality(applied) <= 1
        /\ \A k \in applied : \A j \in 1..(k - 1) : Pattern(j, text) = <<>>
        /\ WellFormedSection(text) => applied \cap (8..12) = {}

(***************************************************************************)
(* generate_hanketsu_html.py: parse_sections                               *)
(***************************************************************************)
\* 主\s*文
MainPattern == <<Lit(<<20027>>), Star(WS), Lit(<<25991>>)>>

\* [１２３４５６７８９0-9一二三四五六七八九十]
DaiDigits == (65297..65305) \cup (48..57) \cup Kanji19 \cup {21313}

\* [ぁ-んァ-ン一-龯々]
KanaKanji == (12353..12435) \cup (12449..12531) \cup (19968..40879) \cup {12293}

\* 第([１２３４５６７８９0-9一二三四五六七八九十]+)\s+([ぁ-んァ-ン一-龯々]{1,20})
DaiPattern ==
    <<Lit(<<31532>>), Open(1), Plus(DaiDigits), Close(1), Plus(WS),
      Open(2), Rep(KanaKanji, FALSE, 1, 20, FALSE), Close(2)>>

\* the 事実及び理由 headings past offset 20 (lines 248-254)
FactsPositions(main_text) ==
    LET ms == SelectSeq(FindIter(main_text, <<Lit(<<20107, 23455, 21450, 12403, 29702, 30001>>)>>, 0), LAMBDA m : m.start > 20)
    IN  [k \in 1..Len(ms) |-> [pos |-> ms[k].start, title |-> <<20107, 23455, 21450, 12403, 29702, 30001>>, level |-> 1]]

\* the 第X headings past offset 10 (lines 258-266)
DaiPositions(main_text) ==
    LET ms == SelectSeq(FindIter(main_text, DaiPattern, 0), LAMBDA m : m.start > 10)
    IN  [k \in 1..Len(ms) |->
            [pos |-> ms[k].start,
             title |-> <<31532>> \o Group(main_text, ms[k], 1) \o <<32>>
                          \o Strip(Group(main_text, ms[k], 2)),
             level |-> 2]]

\* sp placed behind the entries of an ordered list that are not after it
InsertByPos(sorted_, sp) ==
    LET n == Cardinality({k \in 1..Len(sorted_) : sorted_[k].pos <= sp.pos})
    IN  SubSeq(sorted_, 1, n) \o <<sp>> \o SubSeq(sorted_, n + 1, Len(sorted_))

\* section_positions.sort(key=lambda x: x['pos']), a stable sort
RECURSIVE SortByPos(_)
SortByPos(section_positions) ==
    IF section_positions = <<>> THEN <<>>
    ELSE InsertByPos(SortByPos(SubSeq(section_positions, 1, Len(section_positions) - 1)),
                     section_positions[Len(section_positions)])

\* the filter without the rule for 事実及び理由: a close heading is dropped
Filter_no_merge(filtered_positions, sp) ==
    IF filtered_positions = <<>> THEN <<sp>>
    ELSE IF sp.pos - filtered_positions[Len(filtered_positions)].pos >= 50
         THEN Append(filtered_positions, sp)
         ELSE filtered_positions

\* one round of the loop of lines 274-284
Filter(filtered_positions, sp) ==
    IF filtered_positions = <<>> THEN <<sp>>
    ELSE LET last == filtered_positions[Len(filtered_positions)]
             dist == sp.pos - last.pos
         IN  IF dist < 50 /\ last.title = <<20107, 23455, 21450, 12403, 29702, 30001>> /\ Contains(sp.title, <<31532>>)
             THEN [filtered_positions EXCEPT ![Len(filtered_positions)] = sp]
             ELSE IF dist >= 50 THEN Append(filtered_positions, sp)
             ELSE filtered_positions

\* filtered_positions after the first n entries of section_positions
RECURSIVE Filtered(_, _)
Filtered(section_positions, n) ==
    IF n = 0 THEN <<>>
    ELSE Filter(Filtered(section_positions, n - 1), section_positions[n])

\* re.sub of a pattern anchored with ^: the match at offset 0 is removed
SubAtStart(content, nodes) ==
    LET m == Match(content, nodes, 0, NoGroups)
    IN  IF m.ok THEN SubSeq(content, m.end + 1, Len(content)) ELSE content

\* the content of a section with its own heading removed (lines 298-306)
Content(title_, content) ==
    Strip(IF title_ = <<20027, 25991>> THEN SubAtStart(content, MainPattern \o <<Star(WS)>>)
          ELSE IF title_ = <<20107, 23455, 21450, 12403, 29702, 30001>>
               THEN SubAtStart(content, <<Lit(<<20107, 23455, 21450, 12403, 29702, 30001>>), Star(WS)>>)
          ELSE IF Contains(title_, <<31532>>)
               THEN SubAtStart(content,
                               <<Lit(<<31532>>), Plus(DaiDigits), Plus(WS),
                                 Rep(KanaKanji, FALSE, 1, 20, FALSE), Star(WS)>>)
          ELSE content)

\* if content: (line 308)
KeepSection(content) == content # <<>>

\* the sections with every slice running to the end of main_text
Build_to_end(main_text, filtered_positions) ==
    LET section(k) ==
            LET sp == filtered_positions[k]
            IN  [title |-> sp.title, level |-> sp.level,
                 content |-> <<Content(sp.title, SubSeq(main_text, sp.pos + 1, Len(main_text)))>>,
                 start |-> sp.pos, end |-> Len(main_text)]
    IN  SelectSeq([k \in 1..Len(filtered_positions) |-> section(k)],
                  LAMBDA s : KeepSection(s.content[1]))

\* the sections built from filtered_positions (lines 287-313); start and end
\* are the bounds of the slice main_text[start:end] the content is cut from
Build(main_text, filtered_positions) ==
    LET n == Len(filtered_positions)
        section(k) ==
            LET sp == filtered_positions[k]
                start == sp.pos
                end == IF k + 1 <= n THEN filtered_positions[k + 1].pos ELSE Len(main_text)
            IN  [title |-> sp.title, level |-> sp.level,
                 content |-> <<Content(sp.title, SubSeq(main_text, start + 1, end))>>,
                 start |-> start, end |-> end]
    IN  SelectSeq([k \in 1..n |-> section(k)], LAMBDA s : KeepSection(s.content[1]))

\* the text from the 主文 heading on, <<>> when there is no heading
MainText(text_) ==
    LET main_match == Search(text_, MainPattern, 0)
    IN  IF main_match.ok THEN SubSeq(text_, main_match.start + 1, Len(text_)) ELSE <<>>

\* section_positions, sorted (lines 238-269)
SectionPositions(main_text) ==
    SortByPos(<<[pos |-> 0, title |-> <<20027, 25991>>, level |-> 1]>>
                  \o FactsPositions(main_text) \o DaiPositions(main_text))

\* the text segmented without the test for a missing 主文 heading
parse_sections_no_fallback(text_) ==
    Build(text_, Filtered(SectionPositions(text_), Len(SectionPositions(text_))))

parse_sections(text_) ==
    IF ~Search(text_, MainPattern, 0).ok
    THEN <<[title |-> <<26412, 25991>>, level |-> 1, content |-> <<text_>>,
            start |-> 0, end |-> Len(text_)]>>
    ELSE LET main_text == MainText(text_)
             section_positions == SectionPositions(main_text)
         IN  Build(main_text, Filtered(section_positions, Len(section_positions)))

(***************************************************************************)
(* Inputs of parse_sections                                                *)
(***************************************************************************)
MaxGap == 56     \* the 主文 part before the headings has 0..MaxGap characters

\* n characters of disposition text
Gap(n) == [k \in 1..n |-> <<26412, 20214, 25511, 35380, 12434, 26820, 21364, 12377, 12427, 12290>>[((k - 1) % 10) + 1]]

Headings == {<<>>, <<20107, 23455, 21450, 12403, 29702, 30001>>, <<31532, 65297, 32, 25511, 35380, 12398, 36259, 26088>>, <<20107, 23455, 21450, 12403, 29702, 30001, 31532, 65297, 32, 25511, 35380, 12398, 36259, 26088>>,
             <<31532, 65298, 12288, 20107, 26696, 12398, 27010, 35201, 10, 65297, 32>>}

Tails == {<<>>, <<32>>, <<65297, 32, 21407, 21028, 27770, 12434, 21462, 12426, 28040, 12377, 12290>>, <<21407, 21028, 27770, 12434, 21462, 12426, 28040, 12377, 12290>>}

\* 主文, a disposition of every length, the two headings in a row, a tail
MergeTexts ==
    {main \o Gap(n) \o <<20107, 23455, 21450, 12403, 29702, 30001, 31532, 65297, 32, 25511, 35380, 12398, 36259, 26088>> \o tail :
        main \in {<<20027, 25991>>, <<20027, 32, 25991, 10>>}, n \in 0..MaxGap, tail \in Tails}

\* a preamble, 主文 or not, and two headings at chosen distances
HeadingTexts ==
    {pre \o main \o Gap(n1) \o h1 \o Gap(n2) \o h2 \o tail :
        pre \in {<<>>, <<21028, 27770, 32>>}, main \in {<<>>, <<20027, 25991>>, <<20027, 32, 25991, 10>>},
        n1 \in {0, 12, 30, 50}, h1 \in Headings, n2 \in {0, 8, 50},
        h2 \in Headings, tail \in {<<>>, <<32>>, <<21407, 21028, 27770, 12434, 21462, 12426, 28040, 12377, 12290>>}}

SectionInputs == MergeTexts \cup HeadingTexts

InitSections ==
    /\ pc = "in"
    /\ text \in SectionInputs
    /\ sections = <<>>
    /\ title = <<>> /\ laws = <<>> /\ issues = <<>> /\ applied = {}
    /\ arg = <<>> /\ tag = [kind |-> "none", n |-> 0] /\ ret = <<>>
    /\ cases = <<>> /\ idx = 0 /\ index = <<>> /\ html = <<>> /\ saved = "" /\ index_html = <<>>

CallParseSections ==
    /\ pc = "in"
    /\ sections' = parse_sections(text)
    /\ pc' = "done"
    /\ UNCHANGED <<arg, tag, ret, text, title, laws, issues, applied, cases, idx, index, html, saved, index_html>>

NextSections == CallParseSections

SpecSections == InitSections /\ [][NextSections]_vars

(***************************************************************************)
(* Statements about parse_sections                                         *)
(***************************************************************************)
\* the text holds 主 and 文 with nothing but whitespace between them
HasMainHeading(t) ==
    \E a, b \in 1..Len(t) :
        a < b /\ t[a] = 20027 /\ t[b] = 25991 /\ \A c \in (a + 1)..(b - 1) : t[c] \in WS

\* sub occurs in t at offset p
At(t, p, sub) == p >= 0 /\ p + Len(sub) <= Len(t) /\ SubSeq(t, p + 1, p + Len(sub)) = sub

\* the three headings, each with the whitespace behind it
HeadingPatterns ==
    {MainPattern \o <<Star(WS)>>, <<Lit(<<20107, 23455, 21450, 12403, 29702, 30001>>), Star(WS)>>,
     <<Lit(<<31532>>), Plus(DaiDigits), Plus(WS), Rep(KanaKanji, FALSE, 1, 20, FALSE), Star(WS)>>}

\* g holds nothing but headings and whitespace
RECURSIVE OnlyHeadings(_)
OnlyHeadings(g) ==
    \/ Strip(g) = <<>>
    \/ \E h \in HeadingPatterns :
          LET m == Match(Strip(g), h, 0, NoGroups)
          IN  m.ok /\ OnlyHeadings(SubSeq(Strip(g), m.end + 1, Len(Strip(g))))

MergeShape(main_text, p) ==
    /\ At(main_text, p, <<20107, 23455, 21450, 12403, 29702, 30001, 31532, 65297, 32, 25511, 35380, 12398, 36259, 26088>>)
    /\ Len(FindIter(main_text, <<Lit(<<20107, 23455, 21450, 12403, 29702, 30001>>)>>, 0)) = 1
    /\ FindIter(main_text, DaiPattern, 0)[1].start = p + 6
    /\ Len(main_text) > p + 14 /\ main_text[p + 15] \notin KanaKanji
    /\ Strip(SubSeq(main_text, p + 15,
                    IF Len(main_text) < p + 54 THEN Len(main_text) ELSE p + 54)) # <<>>

\* C12 as stated: for 主文 ... 事実及び理由第１ 控訴の趣旨 ... no section is
\* titled 事実及び理由 and one is titled 第１ 控訴の趣旨, whatever the length of
\* the 主文 part.
C12_MergedHeading ==
    (pc = "done" /\ HasMainHeading(text)) =>
        \A p \in 0..Len(MainText(text)) :
            MergeShape(MainText(text), p) =>
                /\ \A k \in 1..Len(sections) : sections[k].title # <<20107, 23455, 21450, 12403, 29702, 30001>>
                /\ \E k \in 1..Len(sections) : sections[k].title = <<31532, 65297, 32, 25511, 35380, 12398, 36259, 26088>>

\* C12 as amended: the same when the sub-heading 第１ 控訴の趣旨 begins at
\* least 50 characters behind the start of the 主文 heading; its section then
\* begins at the sub-heading.
C12_MergedHeadingFrom50 ==
    (pc = "done" /\ HasMainHeading(text)) =>
        \A p \in 0..Len(MainText(text)) :
            (MergeShape(MainText(text), p) /\ p + 6 >= 50) =>
                /\ \A k \in 1..Len(sections) : sections[k].title # <<20107, 23455, 21450, 12403, 29702, 30001>>
                /\ \E k \in 1..Len(sections) :
                      sections[k].title = <<31532, 65297, 32, 25511, 35380, 12398, 36259, 26088>> /\ sections[k].start = p + 6

\* the 事実及び理由 heading was recorded 50 characters behind 主文 and replaced
C12_Witness ==
    /\ pc = "done" /\ HasMainHeading(text)
    /\ \E p \in 50..Len(MainText(text)) : MergeShape(MainText(text), p)
    /\ Len(sections) = 2 /\ sections[2].title = <<31532, 65297, 32, 25511, 35380, 12398, 36259, 26088>>

\* C13: when the text does not contain the heading 主文 (with optional
\* whitespace between the two characters), exactly one section is returned
\* and its content is the whole text.
C13_NoMainHeading ==
    (pc = "done" /\ ~HasMainHeading(text)) =>
        Len(sections) = 1 /\ sections[1].content = <<text>>

\* a text with two headings far apart and no 主文
C13_Witness ==
    /\ pc = "done" /\ ~HasMainHeading(text)
    /\ \E p \in 50..Len(text) : At(text, p, <<20107, 23455, 21450, 12403, 29702, 30001>>)
    /\ Len(sections) = 1 /\ sections[1].title = <<26412, 25991>> /\ sections[1].content = <<text>>

(***************************************************************************)
(* fix_empty_laws.py: the resolution pass.  A case is a record of          *)
(* index.json; number is its position in the corpus, original_case = 0 and *)
(* judgment_type = laws_source = "" stand for an absent key.  html[number] *)
(* is [exists, text]: whether the file is there and the text read from it. *)
(***************************************************************************)
AnyStar == Rep({10}, TRUE, 0, -1, FALSE)     \* .*

DISMISSAL_PATTERNS == <<
    <<Lit(<<26412, 20214, 12434, 19978, 21578, 23529, 12392, 12375, 12390, 21463, 29702, 12375, 12394, 12356>>)>>,
    <<Lit(<<27665, 35380, 27861, 65299, 65297, 65304, 26465, 65297, 38917, 12395, 12424, 12426, 21463, 29702, 12377, 12409, 12365, 12418, 12398, 12392, 12399, 35469, 12417, 12425, 12428, 12394, 12356>>)>>,
    <<Lit(<<27665, 35380, 27861, 51, 49, 56, 26465, 49, 38917, 12395, 12424, 12426, 21463, 29702, 12377, 12409, 12365, 12418, 12398, 12392, 12399, 35469, 12417, 12425, 12428, 12394, 12356>>)>>,
    <<Lit(<<26412, 20214, 19978, 21578, 12434, 26820, 21364, 12377, 12427>>)>>,
    <<Lit(<<19978, 21578, 21463, 29702, 12398, 30003, 31435, 12390>>), AnyStar, Lit(<<29702, 30001, 12364, 12394, 12356>>)>>,
    <<Lit(<<19978, 21578, 12434, 26820, 21364, 12377, 12427>>)>>,
    <<Lit(<<19978, 21578, 12395, 12388, 12356, 12390, 12398, 19978, 21578, 29702, 30001, 12364, 12394, 12356>>)>>,
    <<Lit(<<19978, 21578, 21463, 29702, 30003, 31435, 12390, 12398, 29702, 30001, 12364, 12394, 12356>>)>> >>

CITATION_PATTERNS == <<
    <<Lit(<<21407, 21028, 27770>>), AnyStar, Lit(<<20107, 23455, 21450, 12403, 29702, 30001>>), AnyStar, Lit(<<35352, 36617, 12398, 12392, 12362, 12426>>), AnyStar, Lit(<<24341, 29992>>)>>,
    <<Lit(<<29702, 30001, 12399>>), AnyStar, Lit(<<21407, 21028, 27770>>), AnyStar, Lit(<<35352, 36617, 12398, 12392, 12362, 12426>>)>>,
    <<Lit(<<21407, 21028, 27770>>), AnyStar, Lit(<<24341, 29992, 12377, 12427>>)>>,
    <<Lit(<<24403, 35009, 21028, 25152>>), AnyStar, Lit(<<21407, 21028, 27770>>), AnyStar, Lit(<<24341, 29992>>)>> >>

COURT_HIERARCHY == <<
    [court |-> <<26368, 39640, 35009, 21028, 25152>>, level |-> 3],
    [court |-> <<26481, 20140, 39640, 31561, 35009, 21028, 25152>>, level |-> 2],
    [court |-> <<22823, 38442, 39640, 31561, 35009, 21028, 25152>>, level |-> 2],
    [court |-> <<21517, 21476, 23627, 39640, 31561, 35009, 21028, 25152>>, level |-> 2],
    [court |-> <<31119, 23713, 39640, 31561, 35009, 21028, 25152>>, level |-> 2],
    [court |-> <<20185, 21488, 39640, 31561, 35009, 21028, 25152>>, level |-> 2],
    [court |-> <<26413, 24140, 39640, 31561, 35009, 21028, 25152>>, level |-> 2],
    [court |-> <<24195, 23798, 39640, 31561, 35009, 21028, 25152>>, level |-> 2],
    [court |-> <<39640, 26494, 39640, 31561, 35009, 21028, 25152>>, level |-> 2] >>

\* for pattern in patterns: if re.search(pattern, text_nospace): return True
SearchAny(text_nospace, patterns) ==
    \E k \in 1..Len(patterns) : Search(text_nospace, patterns[k], 0).ok

is_dismissal(text_) == SearchAny(StripSpace(text_), DISMISSAL_PATTERNS)

is_citation(text_) == SearchAny(StripSpace(text_), CITATION_PATTERNS)

get_court_level(court_name) ==
    LET hits == {k \in 1..Len(COURT_HIERARCHY) : Contains(court_name, COURT_HIERARCHY[k].court)}
    IN  IF hits # {}
        THEN COURT_HIERARCHY[CHOOSE k \in hits : \A j \in hits : k <= j].level
        ELSE IF Contains(court_name, <<22320, 26041, 35009, 21028, 25152>>) \/ Contains(court_name, <<22320, 35009>>) THEN 1
        ELSE 0

\* s.endswith(suffix)
EndsWith(s, suffix) ==
    Len(s) >= Len(suffix) /\ SubSeq(s, Len(s) - Len(suffix) + 1, Len(s)) = suffix

\* re.sub(r'(控訴|上告受理申立|上告)事件$', '事件', title); $ matches at the end
\* and before a line feed that ends the title
SubAppealSuffix(title_) ==
    LET nl == title_ # <<>> /\ title_[Len(title_)] = 10
        body == IF nl THEN SubSeq(title_, 1, Len(title_) - 1) ELSE title_
        tail == IF nl THEN <<10>> ELSE <<>>
        cut(n) == SubSeq(body, 1, Len(body) - n) \o <<20107, 20214>> \o tail
    IN  IF EndsWith(body, <<25511, 35380, 20107, 20214>>) THEN cut(4)
        ELSE IF EndsWith(body, <<19978, 21578, 21463, 29702, 30003, 31435, 20107, 20214>>) THEN cut(8)
        ELSE IF EndsWith(body, <<19978, 21578, 20107, 20214>>) THEN cut(4)
        ELSE title_

\* the title with its appeal suffix and 控訴審判決取消(等) removed, stripped
BaseTitle(title_) ==
    Strip(RemoveAll(SubAppealSuffix(title_),
                    <<Lit(<<25511, 35380, 23529, 21028, 27770, 21462, 28040>>), Opt(<<Lit(<<31561>>)>>)>>))

\* the candidates of lines 98 and 102: lower level, title equal or containing
OriginHits(current_level, base_title, all_cases) ==
    {k \in 1..Len(all_cases) :
        /\ get_court_level(all_cases[k].court) < current_level
        /\ \/ all_cases[k].title = base_title
           \/ base_title # <<>> /\ Contains(all_cases[k].title, base_title)}

\* the last candidate of the corpus
FirstOf_last(hits) == IF hits = {} THEN 0 ELSE CHOOSE k \in hits : \A j \in hits : k >= j

\* for c in all_cases: ... return c; return None
FirstOf(hits) == IF hits = {} THEN 0 ELSE CHOOSE k \in hits : \A j \in hits : k <= j

\* the search with an equal title taking precedence over a containing one
find_original_judgment_exact_first(case, all_cases) ==
    FirstOf({k \in OriginHits(get_court_level(case.court), BaseTitle(case.title), all_cases) :
                \/ all_cases[k].title = BaseTitle(case.title)
                \/ \A j \in 1..Len(all_cases) :
                      ~(/\ get_court_level(all_cases[j].court) < get_court_level(case.court)
                        /\ all_cases[j].title = BaseTitle(case.title))})

\* the search without the test of the court level
find_original_judgment_any_level(case, all_cases) ==
    FirstOf(OriginHits(4, BaseTitle(case.title), all_cases))

\* the position in all_cases of the case returned, 0 for None
find_original_judgment(case, all_cases) ==
    FirstOf(OriginHits(get_court_level(case.court), BaseTitle(case.title), all_cases))

InheritanceMarker == <<65288, 21407, 21028, 27770, 24341, 29992, 65289>>
DismissalSentinel == <<65288, 19978, 21578, 21463, 29702, 30003, 31435, 21364, 19979, 65289>>

\* lines 183-191: the mark of a case whose text yields no citation
FallbackLaws(title_, text_) ==
    IF Contains(title_, <<19978, 21578, 21463, 29702>>) /\ Contains(text_, <<26412, 20214, 12434, 19978, 21578, 23529, 12392, 12375, 12390, 21463, 29702, 12377, 12427>>)
    THEN <<<<65288, 19978, 21578, 21463, 29702, 27770, 23450, 65289>>>>
    ELSE IF Contains(title_, <<25613, 23475, 36064, 20767>>) \/ Contains(title_, <<22269, 23478, 36064, 20767>>) THEN <<<<65288, 25613, 23475, 36064, 20767, 35531, 27714, 65289>>>>
    ELSE IF Contains(title_, <<22269, 23478, 25613, 23475, 36064, 20767>>) THEN <<<<65288, 22269, 23478, 36064, 20767, 35531, 27714, 65289>>>>
    ELSE <<<<65288, 26465, 25991, 21442, 29031, 12394, 12375, 65289>>>>

\* the phases with the citation test before the dismissal test
Phase_citation_first(text_) ==
    IF is_citation(text_) THEN "citation"
    ELSE IF is_dismissal(text_) THEN "dismissal"
    ELSE "reextract"

\* lines 153, 160, 177: the phase that handles a text
Phase(text_) ==
    IF is_dismissal(text_) THEN "dismissal"
    ELSE IF is_citation(text_) THEN "citation"
    ELSE "reextract"

\* the citing case with nothing stored when no laws are inherited
Cited_no_marker(case, all_cases, original) ==
    IF original # 0 /\ all_cases[original].laws # <<>>
    THEN [case EXCEPT !.laws = <<InheritanceMarker>> \o all_cases[original].laws,
                      !.laws_source = "inherited",
                      !.original_case = all_cases[original].number]
    ELSE [case EXCEPT !.judgment_type = "appeal_rejected"]

\* lines 162-172: the citing case, original being the position found or 0
Cited(case, all_cases, original) ==
    IF original # 0 /\ all_cases[original].laws # <<>>
    THEN [case EXCEPT !.laws = <<InheritanceMarker>> \o all_cases[original].laws,
                      !.laws_source = "inherited",
                      !.original_case = all_cases[original].number]
    ELSE [case EXCEPT !.laws = <<InheritanceMarker>>,
                      !.judgment_type = "appeal_rejected"]

\* the case the loop is at, and its file
Current == cases[idx + 1]
CurrentFile == html[Current.number]

\* the test of lines 140-145 without the test of the laws
Skipped_only_without_file(case, file) == ~file.exists

\* lines 140-145: the case has laws already, or no html file
Skipped(case, file) == case.laws # <<>> \/ ~file.exists

\* lines 140-145: the loop goes on to the next case
SkipCase ==
    /\ pc = "resolve" /\ idx < Len(cases)
    /\ Skipped(Current, CurrentFile)
    /\ idx' = idx + 1
    /\ UNCHANGED <<pc, arg, tag, ret, text, title, laws, issues, applied, sections, cases, index, html, saved, index_html>>

\* lines 153-157, phase 2
Dismissal ==
    /\ pc = "resolve" /\ idx < Len(cases)
    /\ ~Skipped(Current, CurrentFile) /\ CurrentFile.readable
    /\ Phase(CurrentFile.text) = "dismissal"
    /\ cases' = [cases EXCEPT ![idx + 1].laws = <<DismissalSentinel>>,
                              ![idx + 1].judgment_type = "dismissal"]
    /\ idx' = idx + 1
    /\ UNCHANGED <<pc, arg, tag, ret, text, title, laws, issues, applied, sections, index, html, saved, index_html>>

\* lines 160-174, phase 3
Citation ==
    /\ pc = "resolve" /\ idx < Len(cases)
    /\ ~Skipped(Current, CurrentFile) /\ CurrentFile.readable
    /\ Phase(CurrentFile.text) = "citation"
    /\ cases' = [cases EXCEPT ![idx + 1] =
                     Cited(Current, cases, find_original_judgment(Current, cases))]
    /\ idx' = idx + 1
    /\ UNCHANGED <<pc, arg, tag, ret, text, title, laws, issues, applied, sections, index, html, saved, index_html>>

\* lines 177-192, phase 4
Reextract ==
    /\ pc = "resolve" /\ idx < Len(cases)
    /\ ~Skipped(Current, CurrentFile) /\ CurrentFile.readable
    /\ Phase(CurrentFile.text) = "reextract"
    /\ \E new_laws \in {extract_laws_from_text(CurrentFile.text, Current.title)} :
          IF new_laws # <<>>
          THEN cases' = [cases EXCEPT ![idx + 1].laws = new_laws]
          ELSE \E mark \in {FallbackLaws(Current.title, CurrentFile.text)} :
                  cases' = [cases EXCEPT
                      ![idx + 1].laws = mark,
                      ![idx + 1].judgment_type =
                          IF mark = <<<<65288, 19978, 21578, 21463, 29702, 27770, 23450, 65289>>>> THEN "acceptance" ELSE @]
    /\ idx' = idx + 1
    /\ UNCHANGED <<pc, arg, tag, ret, text, title, laws, issues, applied, sections, index, html, saved, index_html>>

\* lines 147-148, 194-195: extract_text_from_html raises; the error is printed
\* and the case is left as it is
ResolveFailed ==
    /\ pc = "resolve" /\ idx < Len(cases)
    /\ ~Skipped(Current, CurrentFile) /\ ~CurrentFile.readable
    /\ idx' = idx + 1
    /\ UNCHANGED <<pc, arg, tag, ret, text, title, laws, issues, applied, sections, cases, index, html, saved, index_html>>

\* lines 201-202: json.dump(cases, f)
SaveResolved ==
    /\ pc = "resolve" /\ idx = Len(cases)
    /\ index' = cases
    /\ pc' = "done"
    /\ saved' = "resolve"
    /\ UNCHANGED <<arg, tag, ret, text, title, laws, issues, applied, sections, cases, idx, html, index_html>>

(***************************************************************************)
(* The corpora of the resolution pass                                      *)
(***************************************************************************)
MaxCases == 2   \* a corpus holds 1..MaxCases cases

\* an html file: whether it exists, whether open() and read() succeed on it,
\* the text extract_text_from_html returns
NoFile == [exists |-> FALSE, readable |-> FALSE, text |-> <<>>]
File(text_) == [exists |-> TRUE, readable |-> TRUE, text |-> text_]
Unreadable == [exists |-> TRUE, readable |-> FALSE, text |-> <<>>]

BaseName == <<25152, 24471, 31246, 26356, 27491, 20966, 20998, 21462, 28040, 35531, 27714, 20107, 20214>>
AppealName == <<25152, 24471, 31246, 26356, 27491, 20966, 20998, 21462, 28040, 35531, 27714, 25511, 35380, 20107, 20214>>
PetitionName == <<25152, 24471, 31246, 26356, 27491, 20966, 20998, 21462, 28040, 35531, 27714, 19978, 21578, 21463, 29702, 30003, 31435, 20107, 20214>>
LongName == <<31532, 65298, 27425, 25152, 24471, 31246, 26356, 27491, 20966, 20998, 21462, 28040, 35531, 27714, 20107, 20214>>

CitingText == <<24403, 35009, 21028, 25152, 12418, 21407, 21028, 27770, 12434, 24341, 29992, 12377, 12427, 12290>>
DismissingText == <<26412, 20214, 19978, 21578, 12434, 26820, 21364, 12377, 12427, 12290>>
CitingDismissingText == <<21407, 21028, 27770, 12434, 24341, 29992, 12377, 12427, 12290, 26412, 20214, 19978, 21578, 12434, 26820, 21364, 12377, 12427, 12290>>
PlainText == <<35531, 27714, 12434, 26820, 21364, 12377, 12427, 12290>>

Kind(title_, court_, laws_, file_) ==
    [title |-> title_, court |-> court_, laws |-> laws_, file |-> file_]

\* lower-court cases, with and without laws, and the cases that depend on them
ResolveKinds == {
    Kind(BaseName, <<26481, 20140, 22320, 26041, 35009, 21028, 25152>>, <<<<25152, 24471, 31246, 27861, 51, 55, 26465>>>>, NoFile),
    Kind(BaseName, <<26481, 20140, 22320, 26041, 35009, 21028, 25152>>, <<>>, File(<<25152, 24471, 31246, 27861, 65299, 65302, 26465, 12395, 12424, 12427, 12290>>)),
    Kind(BaseName, <<26481, 20140, 22320, 26041, 35009, 21028, 25152>>, <<>>, NoFile),
    Kind(LongName, <<22823, 38442, 22320, 35009>>, <<<<27861, 20154, 31246, 27861, 50, 50, 26465>>>>, NoFile),
    Kind(BaseName, <<22269, 31246, 19981, 26381, 23529, 21028, 25152>>, <<<<28040, 36027, 31246, 27861, 51, 48, 26465>>>>, NoFile),
    Kind(BaseName, <<26481, 20140, 22320, 26041, 35009, 21028, 25152>>, <<>>, File(CitingText)),
    Kind(BaseName, <<22269, 31246, 19981, 26381, 23529, 21028, 25152>>, <<>>, File(CitingText)),
    Kind(BaseName, <<26481, 20140, 39640, 31561, 35009, 21028, 25152>>, <<>>, File(CitingText)),
    Kind(AppealName, <<26481, 20140, 39640, 31561, 35009, 21028, 25152>>, <<>>, File(CitingText)),
    Kind(AppealName, <<26481, 20140, 39640, 31561, 35009, 21028, 25152>>, <<>>, File(CitingDismissingText)),
    Kind(AppealName, <<22823, 38442, 39640, 31561, 35009, 21028, 25152>>, <<>>, File(DismissingText)),
    Kind(AppealName, <<26481, 20140, 39640, 31561, 35009, 21028, 25152>>, <<>>, NoFile),
    Kind(AppealName, <<26481, 20140, 39640, 31561, 35009, 21028, 25152>>, <<<<25152, 24471, 31246, 27861, 51, 55, 26465>>>>, File(CitingText)),
    Kind(AppealName, <<26481, 20140, 39640, 31561, 35009, 21028, 25152>>, <<>>, File(PlainText)),
    Kind(PetitionName, <<26368, 39640, 35009, 21028, 25152, 31532, 19968, 23567, 27861, 24311>>, <<>>, File(CitingText)),
    Kind(PetitionName, <<26368, 39640, 35009, 21028, 25152, 31532, 19968, 23567, 27861, 24311>>, <<>>, File(<<26412, 20214, 12434, 19978, 21578, 23529, 12392, 12375, 12390, 21463, 29702, 12377, 12427, 12290>>)),
    Kind(<<25613, 23475, 36064, 20767, 35531, 27714, 25511, 35380, 20107, 20214>>, <<26481, 20140, 39640, 31561, 35009, 21028, 25152>>, <<>>, File(PlainText)) }

\* corpora of three cases: candidate origins in competition, chains of appeals
ChainKinds == {
    Kind(BaseName, <<26481, 20140, 22320, 26041, 35009, 21028, 25152>>, <<<<25152, 24471, 31246, 27861, 51, 55, 26465>>>>, NoFile),
    Kind(BaseName, <<26481, 20140, 22320, 26041, 35009, 21028, 25152>>, <<>>, NoFile),
    Kind(LongName, <<22823, 38442, 22320, 35009>>, <<<<27861, 20154, 31246, 27861, 50, 50, 26465>>>>, NoFile),
    Kind(BaseName, <<26481, 20140, 39640, 31561, 35009, 21028, 25152>>, <<>>, File(CitingText)),
    Kind(AppealName, <<26481, 20140, 39640, 31561, 35009, 21028, 25152>>, <<>>, File(CitingText)),
    Kind(PetitionName, <<26368, 39640, 35009, 21028, 25152, 31532, 19968, 23567, 27861, 24311>>, <<>>, File(CitingText)) }

\* the record of index.json for the k-th case
NewCase(k, title_, court_, laws_, topics_, tax_type_, original_case_) ==
    [number |-> k, title |-> title_, court |-> court_, laws |-> laws_,
     topics |-> topics_, tax_type |-> tax_type_, issue |-> <<>>,
     judgment_type |-> "", laws_source |-> "", original_case |-> original_case_]

\* index.json and the html directory of a corpus of the given kinds
Loaded(kinds) ==
    /\ index = [k \in 1..Len(kinds) |->
                  NewCase(k, kinds[k].title, kinds[k].court, kinds[k].laws, <<>>, <<>>, 0)]
    /\ html = [k \in 1..Len(kinds) |-> kinds[k].file]

InitResolve ==
    /\ pc = "resolve"
    /\ \/ \E n \in 1..MaxCases : \E kinds \in [1..n -> ResolveKinds] : Loaded(kinds)
       \/ \E kinds \in [1..3 -> ChainKinds] : Loaded(kinds)
    /\ cases = index
    /\ idx = 0
    /\ arg = <<>> /\ tag = [kind |-> "none", n |-> 0] /\ ret = <<>>
    /\ text = <<>> /\ title = <<>> /\ laws = <<>> /\ issues = <<>> /\ applied = {}
    /\ sections = <<>> /\ saved = "" /\ index_html = <<>>

NextResolve == SkipCase \/ Dismissal \/ Citation \/ Reextract \/ SaveResolved

SpecResolve == InitResolve /\ [][NextResolve]_vars

(***************************************************************************)
(* Statements about the resolution pass.  While pc = "resolve", index      *)
(* holds the records as they were loaded and cases[i], i <= idx, the       *)
(* records the loop has gone through.                                      *)
(***************************************************************************)
MatchesCitation(t) == SearchAny(StripSpace(t), CITATION_PATTERNS)
MatchesDismissal(t) == SearchAny(StripSpace(t), DISMISSAL_PATTERNS)

\* the ranking: supreme court 3, high court 2, district court 1, unmatched 0
CourtRank(court_) ==
    IF Contains(court_, <<26368, 39640, 35009, 21028, 25152>>) THEN 3
    ELSE IF \E c \in {<<26481, 20140>>, <<22823, 38442>>, <<21517, 21476, 23627>>, <<31119, 23713>>, <<20185, 21488>>, <<26413, 24140>>, <<24195, 23798>>, <<39640, 26494>>} :
                Contains(court_, c \o <<39640, 31561, 35009, 21028, 25152>>) THEN 2
    ELSE IF Contains(court_, <<22320, 26041, 35009, 21028, 25152>>) \/ Contains(court_, <<22320, 35009>>) THEN 1
    ELSE 0

\* the loop has gone through case i, which had no laws and has an html file
Resolving(i) ==
    /\ pc = "resolve" /\ i \in 1..idx
    /\ index[i].laws = <<>> /\ html[i].exists

\* the record of case o at the moment the loop was at case i
RecordAt(o, i) == IF o < i THEN cases[o] ELSE index[o]

Lower(o, i) == CourtRank(index[o].court) < CourtRank(index[i].court)
TitleEquals(o, i) == index[o].title = BaseTitle(index[i].title)
TitleContains(o, i) == Contains(index[o].title, BaseTitle(index[i].title))

\* C14 as stated: a case with empty laws whose text matches a citation
\* pattern and whose base title equals the title of a case o of strictly
\* lower level with non-empty laws L gets the laws (marker) + L and
\* original_case = o.
C14_InheritsFromEqualTitle ==
    \A i \in 1..Len(cases) : \A o \in 1..Len(cases) :
        (/\ Resolving(i) /\ MatchesCitation(html[i].text)
         /\ Lower(o, i) /\ TitleEquals(o, i) /\ RecordAt(o, i).laws # <<>>) =>
            /\ cases[i].laws = <<InheritanceMarker>> \o RecordAt(o, i).laws
            /\ cases[i].original_case = index[o].number

\* C14 as amended: the same when the text matches no dismissal pattern and no
\* case before o in the corpus has a lower level and a title that equals or
\* contains the base title.
C14_InheritsFromFirstCandidate ==
    \A i \in 1..Len(cases) : \A o \in 1..Len(cases) :
        (/\ Resolving(i) /\ MatchesCitation(html[i].text)
         /\ ~MatchesDismissal(html[i].text)
         /\ Lower(o, i) /\ TitleEquals(o, i) /\ RecordAt(o, i).laws # <<>>
         /\ \A b \in 1..(o - 1) : ~(Lower(b, i) /\ (TitleEquals(b, i) \/ TitleContains(b, i)))) =>
            /\ cases[i].laws = <<InheritanceMarker>> \o RecordAt(o, i).laws
            /\ cases[i].original_case = index[o].number
            /\ cases[i].laws_source = "inherited"

\* a case inherited from the first of two candidates
C14_Witness ==
    \E i \in 1..Len(cases) : \E o \in 1..Len(cases) : \E b \in 1..Len(cases) :
        /\ Resolving(i) /\ MatchesCitation(html[i].text) /\ ~MatchesDismissal(html[i].text)
        /\ Lower(o, i) /\ TitleEquals(o, i) /\ o < b /\ Lower(b, i) /\ TitleContains(b, i)
        /\ index[o].laws # <<>> /\ index[b].laws # <<>> /\ index[b].laws # index[o].laws
        /\ cases[i].laws = <<InheritanceMarker>> \o index[o].laws
        /\ cases[i].original_case = o

\* case i was handled as a citation case: marker first, no dismissal mark
AsCitation(i) ==
    /\ cases[i].laws # <<>> /\ cases[i].laws[1] = InheritanceMarker
    /\ cases[i].judgment_type # "dismissal"

\* C15 as stated: the citation pattern is tested first; a case whose text
\* matches both a citation and a dismissal pattern is handled as a citation
\* case and is not marked with the dismissal sentinel.
C15_CitationFirst ==
    \A i \in 1..Len(cases) :
        (Resolving(i) /\ MatchesCitation(html[i].text) /\ MatchesDismissal(html[i].text)) =>
            AsCitation(i) /\ DismissalSentinel \notin Range(cases[i].laws)

\* C15 as amended: the dismissal pattern is tested first and the citation
\* pattern only if no dismissal pattern matches; a case whose text matches
\* both is marked with the dismissal sentinel alone and gets no origin.
C15_DismissalFirst ==
    \A i \in 1..Len(cases) :
        /\ (Resolving(i) /\ MatchesDismissal(html[i].text)) =>
              /\ cases[i].laws = <<DismissalSentinel>>
              /\ cases[i].judgment_type = "dismissal"
              /\ cases[i].original_case = 0
        /\ (Resolving(i) /\ MatchesCitation(html[i].text) /\ ~MatchesDismissal(html[i].text)) =>
              AsCitation(i)

\* a text matching both patterns, its case marked as dismissed
C15_Witness ==
    \E i \in 1..Len(cases) :
        /\ Resolving(i) /\ MatchesCitation(html[i].text) /\ MatchesDismissal(html[i].text)
        /\ cases[i].laws = <<DismissalSentinel>>

C17_StrictlyLowerLevel ==
    \A i \in 1..Len(cases) :
        LET o == find_original_judgment(cases[i], cases)
            rank == CourtRank(cases[i].court)
        IN  /\ o # 0 => (CourtRank(cases[o].court) < rank /\ o # i)
            /\ rank = 0 => o = 0
            /\ (rank = 1 /\ \A k \in 1..Len(cases) : CourtRank(cases[k].court) # 0) => o = 0
            /\ cases[i].original_case # 0 =>
                  /\ cases[i].original_case # i
                  /\ CourtRank(cases[cases[i].original_case].court) < rank

\* a high-court case linked to a district-court case although a case of its own
\* rank or above carries the base title
C17_Witness ==
    /\ pc = "resolve"
    /\ \E i \in 1..idx :
          /\ cases[i].original_case # 0
          /\ CourtRank(cases[i].court) = 2
          /\ CourtRank(cases[cases[i].original_case].court) = 1
          /\ \E k \in 1..Len(cases) :
                k # i /\ CourtRank(cases[k].court) >= 2
                      /\ cases[k].title = BaseTitle(cases[i].title)

(***************************************************************************)
(* fix_tax_issue.py: the tax-category pass.  list(taxes) of a Python set   *)
(* has no fixed order, so a source that collects its tags in a set yields  *)
(* any ordering of them.                                                   *)
(***************************************************************************)
LAW_TO_TAX == <<
    [law_name |-> <<25152, 24471, 31246, 27861>>, tax |-> <<25152, 24471, 31246>>],
    [law_name |-> <<27861, 20154, 31246, 27861>>, tax |-> <<27861, 20154, 31246>>],
    [law_name |-> <<28040, 36027, 31246, 27861>>, tax |-> <<28040, 36027, 31246>>],
    [law_name |-> <<30456, 32154, 31246, 27861>>, tax |-> <<30456, 32154, 31246>>],
    [law_name |-> <<36104, 19982, 31246, 27861>>, tax |-> <<36104, 19982, 31246>>],
    [law_name |-> <<21360, 32025, 31246, 27861>>, tax |-> <<21360, 32025, 31246>>],
    [law_name |-> <<37202, 31246, 27861>>, tax |-> <<37202, 31246>>],
    [law_name |-> <<30331, 37682, 20813, 35377, 31246, 27861>>, tax |-> <<30331, 37682, 20813, 35377, 31246>>],
    [law_name |-> <<22320, 26041, 31246, 27861>>, tax |-> <<22320, 26041, 31246>>],
    [law_name |-> <<25152, 24471, 31246, 27861, 26045, 34892, 20196>>, tax |-> <<25152, 24471, 31246>>],
    [law_name |-> <<27861, 20154, 31246, 27861, 26045, 34892, 20196>>, tax |-> <<27861, 20154, 31246>>],
    [law_name |-> <<28040, 36027, 31246, 27861, 26045, 34892, 20196>>, tax |-> <<28040, 36027, 31246>>],
    [law_name |-> <<30456, 32154, 31246, 27861, 26045, 34892, 20196>>, tax |-> <<30456, 32154, 31246>>],
    [law_name |-> <<31199, 31246, 29305, 21029, 25514, 32622, 27861>>, tax |-> <<31199, 31246, 29305, 21029, 25514, 32622, 27861>>],
    [law_name |-> <<36001, 29987, 35413, 20385, 22522, 26412, 36890, 36948>>, tax |-> <<30456, 32154, 31246>>],
    [law_name |-> <<25152, 24471, 31246, 22522, 26412, 36890, 36948>>, tax |-> <<25152, 24471, 31246>>],
    [law_name |-> <<27861, 20154, 31246, 22522, 26412, 36890, 36948>>, tax |-> <<27861, 20154, 31246>>],
    [law_name |-> <<28040, 36027, 31246, 27861, 22522, 26412, 36890, 36948>>, tax |-> <<28040, 36027, 31246>>] >>

\* the set taxes of infer_tax_from_laws; a law beginning with （ is skipped
infer_tax_from_laws(laws_) ==
    {LAW_TO_TAX[k].tax : k \in {j \in 1..Len(LAW_TO_TAX) :
        \E n \in 1..Len(laws_) :
            /\ ~(laws_[n] # <<>> /\ laws_[n][1] = 65288)
            /\ Contains(laws_[n], LAW_TO_TAX[j].law_name)}}

tax_keywords == <<
    [keyword |-> <<25152, 24471, 31246>>, tax |-> <<25152, 24471, 31246>>],
    [keyword |-> <<27861, 20154, 31246>>, tax |-> <<27861, 20154, 31246>>],
    [keyword |-> <<28040, 36027, 31246>>, tax |-> <<28040, 36027, 31246>>],
    [keyword |-> <<30456, 32154, 31246>>, tax |-> <<30456, 32154, 31246>>],
    [keyword |-> <<36104, 19982, 31246>>, tax |-> <<36104, 19982, 31246>>],
    [keyword |-> <<21360, 32025, 31246>>, tax |-> <<21360, 32025, 31246>>],
    [keyword |-> <<37202, 31246>>, tax |-> <<37202, 31246>>],
    [keyword |-> <<30331, 37682, 20813, 35377, 31246>>, tax |-> <<30331, 37682, 20813, 35377, 31246>>],
    [keyword |-> <<28304, 27849, 25152, 24471, 31246>>, tax |-> <<25152, 24471, 31246>>],
    [keyword |-> <<28304, 27849, 24500, 21454>>, tax |-> <<25152, 24471, 31246>>] >>

\* the set taxes of infer_tax_from_title
infer_tax_from_title(title_) ==
    {tax_keywords[k].tax : k \in {j \in 1..Len(tax_keywords) :
        Contains(title_, tax_keywords[j].keyword)}}

\* X.{0,5}(?:更正|処分|課税)
ActionPattern(tax) ==
    <<Lit(tax), Rep({10}, TRUE, 0, 5, FALSE),
      Alt(<< <<Lit(<<26356, 27491>>)>>, <<Lit(<<20966, 20998>>)>>, <<Lit(<<35506, 31246>>)>> >>)>>

html_taxes == <<<<25152, 24471, 31246>>, <<27861, 20154, 31246>>, <<28040, 36027, 31246>>, <<30456, 32154, 31246>>, <<36104, 19982, 31246>>, <<21360, 32025, 31246>>, <<37202, 31246>>>>

\* the set taxes of infer_tax_from_html; file is [exists, text]
infer_tax_from_html(file) ==
    IF ~file.exists THEN {}
    ELSE {html_taxes[k] : k \in {j \in 1..Len(html_taxes) :
             Search(file.text, ActionPattern(html_taxes[j]), 0).ok}}

UnknownSentinel == <<65288, 31246, 30446, 24773, 22577, 12394, 12375, 65289>>

\* list(taxes): the orderings of a set
Orderings(taxes) ==
    {t \in [1..Cardinality(taxes) -> taxes] : Range(t) = taxes}

\* lines 371-377: the tax_type of the linked case, [] without a link
OriginTax(case, all_cases) ==
    IF case.original_case # 0 /\ \E k \in 1..Len(all_cases) : all_cases[k].number = case.original_case
    THEN all_cases[CHOOSE k \in 1..Len(all_cases) :
                       /\ all_cases[k].number = case.original_case
                       /\ \A j \in (k + 1)..Len(all_cases) :
                             all_cases[j].number # case.original_case].tax_type
    ELSE <<>>

\* the cascade with the title consulted before the laws
Evidence_title_first(topics_, from_laws, from_title, from_html, orig_tax) ==
    IF topics_ # <<>> THEN {topics_}
    ELSE IF from_title # {} THEN Orderings(from_title)
    ELSE IF from_laws # {} THEN Orderings(from_laws)
    ELSE IF from_html # {} THEN Orderings(from_html)
    ELSE {orig_tax}

\* lines 348-377: the lists the first non-empty source may yield, [] if none
Evidence(topics_, from_laws, from_title, from_html, orig_tax) ==
    IF topics_ # <<>> THEN {topics_}
    ELSE IF from_laws # {} THEN Orderings(from_laws)
    ELSE IF from_title # {} THEN Orderings(from_title)
    ELSE IF from_html # {} THEN Orderings(from_html)
    ELSE {orig_tax}

\* the sentinel appended to whatever was found
OrUnknown_appended(tax_type) == Append(tax_type, UnknownSentinel)

\* lines 380-382
OrUnknown(tax_type) == IF tax_type = <<>> THEN <<UnknownSentinel>> ELSE tax_type

\* the values line 384 may store for the case
TaxTypes(case, all_cases, file) ==
    {OrUnknown(t) : t \in Evidence(case.topics, infer_tax_from_laws(case.laws),
                                   infer_tax_from_title(case.title),
                                   infer_tax_from_html(file),
                                   OriginTax(case, all_cases))}

\* lines 348-362: a source consulted before the html produced a tag
BeforeHtml(case) ==
    \/ case.topics # <<>>
    \/ infer_tax_from_laws(case.laws) # {}
    \/ infer_tax_from_title(case.title) # {}

\* line 366 reaches open() of infer_tax_from_html, lines 93-94, outside any
\* try, on a file that cannot be read
TaxRaises(case, file) == file.exists /\ ~file.readable /\ ~BeforeHtml(case)

\* lines 387-403: the issues of the case; [] when there is no file and when
\* extract_text_from_html raises (lines 396-399)
IssuesOf(file) ==
    IF file.exists /\ file.readable THEN extract_issues(file.text) ELSE <<>>

\* lines 339-403: one round of the loop
TaxCase ==
    /\ pc = "tax" /\ idx < Len(cases)
    /\ ~TaxRaises(Current, CurrentFile)
    /\ \E tax_type \in TaxTypes(Current, cases, CurrentFile) :
       \E issue \in {IssuesOf(CurrentFile)} :
          cases' = [cases EXCEPT ![idx + 1].tax_type = tax_type, ![idx + 1].issue = issue]
    /\ idx' = idx + 1
    /\ UNCHANGED <<pc, arg, tag, ret, text, title, laws, issues, applied, sections, index, html, saved, index_html>>

\* the exception of line 366 leaves main: nothing is saved
TaxAbort ==
    /\ pc = "tax" /\ idx < Len(cases)
    /\ TaxRaises(Current, CurrentFile)
    /\ pc' = "aborted"
    /\ UNCHANGED <<arg, tag, ret, text, title, laws, issues, applied, sections, cases, idx, index, html, saved, index_html>>

\* lines 409-410: json.dump(cases, f)
SaveTaxed ==
    /\ pc = "tax" /\ idx = Len(cases)
    /\ index' = cases
    /\ pc' = "done"
    /\ saved' = "tax"
    /\ UNCHANGED <<arg, tag, ret, text, title, laws, issues, applied, sections, cases, idx, html, index_html>>

(***************************************************************************)
(* The corpora of the tax-category pass                                    *)
(***************************************************************************)
TaxKind(title_, laws_, topics_, tax_type_, original_case_, file_) ==
    [title |-> title_, laws |-> laws_, topics |-> topics_, tax_type |-> tax_type_,
     original_case |-> original_case_, file |-> file_]

NoTaxName == <<35506, 31246, 20966, 20998, 21462, 28040, 35531, 27714, 20107, 20214>>
NoTaxAppeal == <<35506, 31246, 20966, 20998, 21462, 28040, 35531, 27714, 25511, 35380, 20107, 20214>>

\* one kind per source of the cascade, links to cases before, behind and
\* outside the corpus, and tax_type values left by an earlier run
TaxKinds == {
    TaxKind(BaseName, <<<<25152, 24471, 31246, 27861, 51, 55, 26465>>>>, <<<<27861, 20154, 31246>>>>, <<>>, 0, NoFile),
    TaxKind(NoTaxName, <<>>, <<<<67, 70, 67>>>>, <<>>, 0, NoFile),
    TaxKind(BaseName, <<<<25152, 24471, 31246, 27861, 51, 55, 26465>>, <<27861, 20154, 31246, 27861, 50, 50, 26465>>>>, <<>>, <<>>, 0, NoFile),
    TaxKind(NoTaxName, <<InheritanceMarker, <<22320, 26041, 31246, 27861, 51, 52, 51, 26465>>>>, <<>>, <<>>, 0, NoFile),
    TaxKind(<<30456, 32154, 31246, 26356, 27491, 20966, 20998, 21462, 28040, 35531, 27714, 20107, 20214>>, <<<<22269, 31246, 36890, 21063, 27861, 54, 53, 26465>>>>, <<>>, <<>>, 0, NoFile),
    TaxKind(NoTaxName, <<>>, <<>>, <<>>, 0, File(<<28040, 36027, 31246, 12398, 26356, 27491, 20966, 20998, 12434, 21462, 12426, 28040, 12377, 12290>>)),
    TaxKind(NoTaxAppeal, <<InheritanceMarker>>, <<>>, <<>>, 1, NoFile),
    TaxKind(NoTaxAppeal, <<InheritanceMarker>>, <<>>, <<>>, 2, NoFile),
    TaxKind(NoTaxAppeal, <<InheritanceMarker>>, <<>>, <<>>, 3, File(PlainText)),
    TaxKind(AppealName, <<InheritanceMarker>>, <<>>, <<>>, 1, NoFile),
    TaxKind(NoTaxName, <<>>, <<>>, <<>>, 0, NoFile),
    TaxKind(NoTaxName, <<>>, <<>>, <<<<30456, 32154, 31246>>>>, 0, NoFile),
    TaxKind(NoTaxName, <<>>, <<>>, <<UnknownSentinel>>, 0, File(PlainText)) }

InitTax ==
    /\ pc = "tax"
    /\ \E n \in 1..MaxCases : \E kinds \in [1..n -> TaxKinds] :
          /\ index = [k \in 1..n |->
                        NewCase(k, kinds[k].title, <<26481, 20140, 22320, 26041, 35009, 21028, 25152>>, kinds[k].laws,
                                kinds[k].topics, kinds[k].tax_type, kinds[k].original_case)]
          /\ html = [k \in 1..n |-> kinds[k].file]
    /\ cases = index
    /\ idx = 0
    /\ arg = <<>> /\ tag = [kind |-> "none", n |-> 0] /\ ret = <<>>
    /\ text = <<>> /\ title = <<>> /\ laws = <<>> /\ issues = <<>> /\ applied = {}
    /\ sections = <<>> /\ saved = "" /\ index_html = <<>>

NextTax == TaxCase \/ SaveTaxed

SpecTax == InitTax /\ [][NextTax]_vars

(***************************************************************************)
(* Statements about the tax-category pass.  While pc = "tax", index holds  *)
(* the records as they were loaded.                                        *)
(***************************************************************************)
\* the loop has gone through case i
Taxed(i) == pc = "tax" /\ i \in 1..idx

\* the five sources of case i, as the loop found them
FromTopics(i) == index[i].topics
FromLaws(i) == infer_tax_from_laws(index[i].laws)
FromTitle(i) == infer_tax_from_title(index[i].title)
FromHtml(i) == infer_tax_from_html(html[i])
FromOrigin(i) ==
    IF index[i].original_case \in 1..Len(index)
    THEN RecordAt(index[i].original_case, i).tax_type
    ELSE <<>>

\* t lists the tags of the set taxes, each once
Lists(t, taxes) == Range(t) = taxes /\ Len(t) = Cardinality(taxes)

\* C18: tax_type comes from the first non-empty source in the order topics,
\* law names of the citations, title keywords, body-text patterns, tax_type
\* of the linked origin case, unknown sentinel; a later source contributes no
\* tag once an earlier one has produced one.
C18_FirstSourceWins ==
    \A i \in 1..Len(cases) : Taxed(i) =>
        LET t == cases[i].tax_type
        IN  IF FromTopics(i) # <<>> THEN t = FromTopics(i)
            ELSE IF FromLaws(i) # {} THEN Lists(t, FromLaws(i))
            ELSE IF FromTitle(i) # {} THEN Lists(t, FromTitle(i))
            ELSE IF FromHtml(i) # {} THEN Lists(t, FromHtml(i))
            ELSE IF FromOrigin(i) # <<>> THEN t = FromOrigin(i)
            ELSE t = <<UnknownSentinel>>

\* the laws of a case win over its title, the title of another over its origin
C18_Witness ==
    \E i, j \in 1..Len(cases) :
        /\ Taxed(i) /\ Taxed(j)
        /\ FromTopics(i) = <<>> /\ FromLaws(i) # {} /\ FromTitle(i) # {}
        /\ FromLaws(i) # FromTitle(i) /\ Lists(cases[i].tax_type, FromLaws(i))
        /\ FromLaws(j) = {} /\ FromTitle(j) # {} /\ FromOrigin(j) # <<>>
        /\ Range(FromOrigin(j)) # FromTitle(j) /\ Lists(cases[j].tax_type, FromTitle(j))

\* C19: after the pass tax_type is a non-empty list, and the unknown
\* sentinel appears in it only as the sole element, once, and only when none
\* of the five sources produced a tag (the origin supplying at most the
\* sentinel it carries itself).
C19_SentinelAlone ==
    \A i \in 1..Len(cases) : Taxed(i) =>
        LET t == cases[i].tax_type
        IN  /\ t # <<>>
            /\ UnknownSentinel \in Range(t) =>
                  /\ t = <<UnknownSentinel>>
                  /\ FromTopics(i) = <<>> /\ FromLaws(i) = {} /\ FromTitle(i) = {}
                  /\ FromHtml(i) = {} /\ Range(FromOrigin(i)) \subseteq {UnknownSentinel}

\* one case without any evidence, one linked to it
C19_Witness ==
    \E i, j \in 1..Len(cases) :
        /\ Taxed(i) /\ Taxed(j) /\ i < j
        /\ index[j].original_case = i /\ index[i].original_case = 0
        /\ index[i].tax_type = <<>>
        /\ cases[i].tax_type = <<UnknownSentinel>>
        /\ cases[j].tax_type = <<UnknownSentinel>>

Vocabulary ==
    {<<25152, 24471, 31246>>, <<27861, 20154, 31246>>, <<28040, 36027, 31246>>, <<30456, 32154, 31246>>, <<36104, 19982, 31246>>, <<21360, 32025, 31246>>, <<30331, 37682, 20813, 35377, 31246>>, <<37202, 31246>>, <<22269, 31246, 24500, 21454>>}

\* C20: every tag the pass stores in tax_type is the unknown sentinel or one
\* of the nine tags of the vocabulary, whichever source supplied it (the
\* topics and the tax_type values found in index.json being of that kind).
C20_ClosedVocabulary ==
    (/\ pc = "tax"
     /\ \A k \in 1..Len(index) :
           /\ Range(index[k].topics) \subseteq Vocabulary
           /\ Range(index[k].tax_type) \subseteq Vocabulary \cup {UnknownSentinel}) =>
        \A i \in 1..idx : Range(cases[i].tax_type) \subseteq Vocabulary \cup {UnknownSentinel}

\* case i has no evidence of its own and a link to a case of the corpus
OnlyOrigin(i) ==
    /\ FromTopics(i) = <<>> /\ FromLaws(i) = {} /\ FromTitle(i) = {} /\ FromHtml(i) = {}
    /\ index[i].original_case \in 1..Len(index)

\* C30: a case that gets its tags by inheritance has, when the pass has
\* saved, the tags its origin has then, whatever the order of the cases; it
\* is not marked unknown while its origin ends the pass with genuine tags.
C30_TagsOfOriginAtEnd ==
    pc = "done" =>
        \A i \in 1..Len(index) :
            OnlyOrigin(i) =>
                \/ index[i].tax_type = index[index[i].original_case].tax_type
                \/ /\ index[index[i].original_case].tax_type = <<>>
                   /\ index[i].tax_type = <<UnknownSentinel>>

(***************************************************************************)
(* The tax-category pass over corpora with files that cannot be read and   *)
(* with issue lists left by an earlier run                                 *)
(***************************************************************************)
FailKind(title_, laws_, tax_type_, issue_, file_) ==
    [title |-> title_, laws |-> laws_, tax_type |-> tax_type_, issue |-> issue_, file |-> file_]

OldIssue == <<24517, 35201, 32076, 36027, 12398, 31684, 22258>>

FailKinds == {
    FailKind(BaseName, <<<<25152, 24471, 31246, 27861, 51, 55, 26465>>>>, <<<<25152, 24471, 31246>>>>, <<OldIssue>>, Unreadable),
    FailKind(BaseName, <<>>, <<>>, <<>>, Unreadable),
    FailKind(NoTaxName, <<>>, <<<<30456, 32154, 31246>>>>, <<OldIssue>>, Unreadable),
    FailKind(NoTaxName, <<<<27861, 20154, 31246, 27861, 50, 50, 26465>>>>, <<>>, <<OldIssue>>, NoFile),
    FailKind(NoTaxName, <<>>, <<>>, <<OldIssue>>, File(<<28040, 36027, 31246, 12398, 26356, 27491, 20966, 20998, 12434, 21462, 12426, 28040, 12377, 12290>>)),
    FailKind(BaseName, <<>>, <<<<25152, 24471, 31246>>>>, <<>>, File(PlainText)) }

InitTaxFail ==
    /\ pc = "tax"
    /\ \E n \in 1..MaxCases : \E kinds \in [1..n -> FailKinds] :
          /\ index = [k \in 1..n |->
                        [NewCase(k, kinds[k].title, <<26481, 20140, 22320, 26041, 35009, 21028, 25152>>, kinds[k].laws,
                                 <<>>, kinds[k].tax_type, 0) EXCEPT !.issue = kinds[k].issue]]
          /\ html = [k \in 1..n |-> kinds[k].file]
    /\ cases = index
    /\ idx = 0
    /\ arg = <<>> /\ tag = [kind |-> "none", n |-> 0] /\ ret = <<>>
    /\ text = <<>> /\ title = <<>> /\ laws = <<>> /\ issues = <<>> /\ applied = {}
    /\ sections = <<>> /\ saved = "" /\ index_html = <<>>

NextTaxFail == TaxCase \/ TaxAbort \/ SaveTaxed

SpecTaxFail == InitTaxFail /\ [][NextTaxFail]_vars

\* the loop has gone through case i, whose file exists and cannot be read
FailedCase(i) == pc = "tax" /\ i \in 1..idx /\ html[i].exists /\ ~html[i].readable

\* C21: in the tax/issue pass a failure while processing one case never
\* aborts the batch, and the failing case keeps the laws, issue and tax_type
\* it had before the pass.
C21_FailureSkipsCase ==
    /\ pc # "aborted"
    /\ \A i \in 1..Len(cases) :
          FailedCase(i) =>
              /\ cases[i].laws = index[i].laws
              /\ cases[i].issue = index[i].issue
              /\ cases[i].tax_type = index[i].tax_type

(***************************************************************************)
(* generate_hanketsu_index.py: generate_index_html                         *)
(***************************************************************************)
CSS == <<10, 98, 111, 100, 121, 32, 123, 10, 32, 32, 109, 97, 120, 45, 119, 105, 100, 116, 104, 58, 32, 49, 50, 48, 48, 112, 120, 59, 10, 32, 32, 109, 97, 114, 103, 105, 110, 58, 32, 48, 32, 97, 117, 116, 111, 59, 10, 32, 32, 112, 97, 100, 100, 105, 110, 103, 58, 32, 50, 48, 112, 120, 59, 10, 32, 32, 102, 111, 110, 116, 45, 102, 97, 109, 105, 108, 121, 58, 32, 34, 72, 105, 114, 97, 103, 105, 110, 111, 32, 75, 97, 107, 117, 32, 71, 111, 116, 104, 105, 99, 32, 80, 114, 111, 34, 44, 32, 34, 89, 117, 32, 71, 111, 116, 104, 105, 99, 34, 44, 32, 115, 97, 110, 115, 45, 115, 101, 114, 105, 102, 59, 10, 32, 32, 102, 111, 110, 116, 45, 115, 105, 122, 101, 58, 32, 49, 52, 112, 120, 59, 10, 32, 32, 108, 105, 110, 101, 45, 104, 101, 105, 103, 104, 116, 58, 32, 49, 46, 54, 59, 10, 32, 32, 99, 111, 108, 111, 114, 58, 32, 35, 51, 51, 51, 59, 10, 32, 32, 98, 97, 99, 107, 103, 114, 111, 117, 110, 100, 58, 32, 35, 102, 97, 102, 97, 102, 97, 59, 10, 125, 10, 104, 49, 32, 123, 32, 102, 111, 110, 116, 45, 115, 105, 122, 101, 58, 32, 49, 46, 52, 101, 109, 59, 32, 98, 111, 114, 100, 101, 114, 45, 98, 111, 116, 116, 111, 109, 58, 32, 50, 112, 120, 32, 115, 111, 108, 105, 100, 32, 35, 50, 53, 54, 51, 101, 98, 59, 32, 112, 97, 100, 100, 105, 110, 103, 45, 98, 111, 116, 116, 111, 109, 58, 32, 56, 112, 120, 59, 32, 125, 10, 116, 97, 98, 108, 101, 32, 123, 32, 119, 105, 100, 116, 104, 58, 32, 49, 48, 48, 37, 59, 32, 98, 111, 114, 100, 101, 114, 45, 99, 111, 108, 108, 97, 112, 115, 101, 58, 32, 99, 111, 108, 108, 97, 112, 115, 101, 59, 32, 109, 97, 114, 103, 105, 110, 45, 116, 111, 112, 58, 32, 50, 48, 112, 120, 59, 32, 125, 10, 116, 104, 44, 32, 116, 100, 32, 123, 32, 112, 97, 100, 100, 105, 110, 103, 58, 32, 56, 112, 120, 32, 54, 112, 120, 59, 32, 116, 101, 120, 116, 45, 97, 108, 105, 103, 110, 58, 32, 108, 101, 102, 116, 59, 32, 98, 111, 114, 100, 101, 114, 45, 98, 111, 116, 116, 111, 109, 58, 32, 49, 112, 120, 32, 115, 111, 108, 105, 100, 32, 35, 101, 50, 101, 56, 102, 48, 59, 32, 118, 101, 114, 116, 105, 99, 97, 108, 45, 97, 108, 105, 103, 110, 58, 32, 116, 111, 112, 59, 32, 125, 10, 116, 104, 32, 123, 32, 98, 97, 99, 107, 103, 114, 111, 117, 110, 100, 58, 32, 35, 49, 101, 52, 48, 97, 102, 59, 32, 99, 111, 108, 111, 114, 58, 32, 119, 104, 105, 116, 101, 59, 32, 102, 111, 110, 116, 45, 119, 101, 105, 103, 104, 116, 58, 32, 98, 111, 108, 100, 59, 32, 112, 111, 115, 105, 116, 105, 111, 110, 58, 32, 115, 116, 105, 99, 107, 121, 59, 32, 116, 111, 112, 58, 32, 48, 59, 32, 125, 10, 116, 114, 58, 104, 111, 118, 101, 114, 32, 123, 32, 98, 97, 99, 107, 103, 114, 111, 117, 110, 100, 58, 32, 35, 102, 48, 102, 57, 102, 102, 59, 32, 125, 10, 46, 114, 101, 115, 117, 108, 116, 45, 26820, 21364, 32, 123, 32, 99, 111, 108, 111, 114, 58, 32, 35, 100, 99, 50, 54, 50, 54, 59, 32, 125, 10, 46, 114, 101, 115, 117, 108, 116, 45, 35469, 23481, 32, 123, 32, 99, 111, 108, 111, 114, 58, 32, 35, 49, 54, 97, 51, 52, 97, 59, 32, 125, 10, 46, 114, 101, 115, 117, 108, 116, 45, 19968, 37096, 35469, 23481, 32, 123, 32, 99, 111, 108, 111, 114, 58, 32, 35, 99, 97, 56, 97, 48, 52, 59, 32, 125, 10, 46, 114, 101, 115, 117, 108, 116, 45, 21462, 28040, 32, 123, 32, 99, 111, 108, 111, 114, 58, 32, 35, 50, 53, 54, 51, 101, 98, 59, 32, 125, 10, 46, 114, 101, 115, 117, 108, 116, 45, 21364, 19979, 32, 123, 32, 99, 111, 108, 111, 114, 58, 32, 35, 54, 98, 55, 50, 56, 48, 59, 32, 125, 10, 46, 116, 97, 120, 45, 116, 97, 103, 32, 123, 32, 100, 105, 115, 112, 108, 97, 121, 58, 32, 105, 110, 108, 105, 110, 101, 45, 98, 108, 111, 99, 107, 59, 32, 112, 97, 100, 100, 105, 110, 103, 58, 32, 50, 112, 120, 32, 54, 112, 120, 59, 32, 109, 97, 114, 103, 105, 110, 58, 32, 49, 112, 120, 59, 32, 98, 111, 114, 100, 101, 114, 45, 114, 97, 100, 105, 117, 115, 58, 32, 51, 112, 120, 59, 32, 102, 111, 110, 116, 45, 115, 105, 122, 101, 58, 32, 49, 49, 112, 120, 59, 32, 125, 10, 46, 116, 97, 120, 45, 25152, 24471, 31246, 32, 123, 32, 98, 97, 99, 107, 103, 114, 111, 117, 110, 100, 58, 32, 35, 100, 98, 101, 97, 102, 101, 59, 32, 99, 111, 108, 111, 114, 58, 32, 35, 49, 101, 52, 48, 97, 102, 59, 32, 125, 10, 46, 116, 97, 120, 45, 27861, 20154, 31246, 32, 123, 32, 98, 97, 99, 107, 103, 114, 111, 117, 110, 100, 58, 32, 35, 100, 99, 102, 99, 101, 55, 59, 32, 99, 111, 108, 111, 114, 58, 32, 35, 49, 54, 54, 53, 51, 52, 59, 32, 125, 10, 46, 116, 97, 120, 45, 28040, 36027, 31246, 32, 123, 32, 98, 97, 99, 107, 103, 114, 111, 117, 110, 100, 58, 32, 35, 102, 101, 102, 57, 99, 51, 59, 32, 99, 111, 108, 111, 114, 58, 32, 35, 56, 53, 52, 100, 48, 101, 59, 32, 125, 10, 46, 116, 97, 120, 45, 30456, 32154, 31246, 32, 123, 32, 98, 97, 99, 107, 103, 114, 111, 117, 110, 100, 58, 32, 35, 102, 99, 101, 55, 102, 51, 59, 32, 99, 111, 108, 111, 114, 58, 32, 35, 57, 100, 49, 55, 52, 100, 59, 32, 125, 10, 46, 116, 97, 120, 45, 36104, 19982, 31246, 32, 123, 32, 98, 97, 99, 107, 103, 114, 111, 117, 110, 100, 58, 32, 35, 102, 51, 101, 56, 102, 102, 59, 32, 99, 111, 108, 111, 114, 58, 32, 35, 54, 98, 50, 49, 97, 56, 59, 32, 125, 10, 46, 116, 97, 120, 45, 21360, 32025, 31246, 32, 123, 32, 98, 97, 99, 107, 103, 114, 111, 117, 110, 100, 58, 32, 35, 102, 101, 101, 50, 101, 50, 59, 32, 99, 111, 108, 111, 114, 58, 32, 35, 57, 57, 49, 98, 49, 98, 59, 32, 125, 10, 46, 116, 97, 120, 45, 22269, 31246, 24500, 21454, 32, 123, 32, 98, 97, 99, 107, 103, 114, 111, 117, 110, 100, 58, 32, 35, 101, 48, 101, 55, 102, 102, 59, 32, 99, 111, 108, 111, 114, 58, 32, 35, 51, 55, 51, 48, 97, 51, 59, 32, 125, 10, 116, 100, 46, 105, 115, 115, 117, 101, 115, 32, 123, 32, 102, 111, 110, 116, 45, 115, 105, 122, 101, 58, 32, 49, 50, 112, 120, 59, 32, 99, 111, 108, 111, 114, 58, 32, 35, 54, 54, 54, 59, 32, 109, 97, 120, 45, 119, 105, 100, 116, 104, 58, 32, 50, 48, 48, 112, 120, 59, 32, 125, 10, 116, 100, 46, 112, 114, 111, 118, 105, 115, 105, 111, 110, 115, 32, 123, 32, 102, 111, 110, 116, 45, 115, 105, 122, 101, 58, 32, 49, 49, 112, 120, 59, 32, 99, 111, 108, 111, 114, 58, 32, 35, 56, 56, 56, 59, 32, 109, 97, 120, 45, 119, 105, 100, 116, 104, 58, 32, 49, 56, 48, 112, 120, 59, 32, 125, 10, 97, 32, 123, 32, 99, 111, 108, 111, 114, 58, 32, 35, 50, 53, 54, 51, 101, 98, 59, 32, 116, 101, 120, 116, 45, 100, 101, 99, 111, 114, 97, 116, 105, 111, 110, 58, 32, 110, 111, 110, 101, 59, 32, 125, 10, 97, 58, 104, 111, 118, 101, 114, 32, 123, 32, 116, 101, 120, 116, 45, 100, 101, 99, 111, 114, 97, 116, 105, 111, 110, 58, 32, 117, 110, 100, 101, 114, 108, 105, 110, 101, 59, 32, 125, 10, 46, 115, 116, 97, 116, 115, 32, 123, 32, 109, 97, 114, 103, 105, 110, 58, 32, 49, 53, 112, 120, 32, 48, 59, 32, 112, 97, 100, 100, 105, 110, 103, 58, 32, 49, 50, 112, 120, 59, 32, 98, 97, 99, 107, 103, 114, 111, 117, 110, 100, 58, 32, 35, 101, 48, 102, 50, 102, 101, 59, 32, 98, 111, 114, 100, 101, 114, 45, 114, 97, 100, 105, 117, 115, 58, 32, 54, 112, 120, 59, 32, 125, 10, 46, 115, 116, 97, 116, 115, 32, 115, 112, 97, 110, 32, 123, 32, 109, 97, 114, 103, 105, 110, 45, 114, 105, 103, 104, 116, 58, 32, 50, 48, 112, 120, 59, 32, 125, 10, 46, 102, 105, 108, 116, 101, 114, 32, 123, 32, 109, 97, 114, 103, 105, 110, 58, 32, 49, 53, 112, 120, 32, 48, 59, 32, 125, 10, 46, 102, 105, 108, 116, 101, 114, 32, 115, 101, 108, 101, 99, 116, 32, 123, 32, 112, 97, 100, 100, 105, 110, 103, 58, 32, 54, 112, 120, 32, 49, 50, 112, 120, 59, 32, 109, 97, 114, 103, 105, 110, 45, 114, 105, 103, 104, 116, 58, 32, 49, 48, 112, 120, 59, 32, 98, 111, 114, 100, 101, 114, 58, 32, 49, 112, 120, 32, 115, 111, 108, 105, 100, 32, 35, 99, 99, 99, 59, 32, 98, 111, 114, 100, 101, 114, 45, 114, 97, 100, 105, 117, 115, 58, 32, 52, 112, 120, 59, 32, 125, 10>>

JS == <<10, 102, 117, 110, 99, 116, 105, 111, 110, 32, 102, 105, 108, 116, 101, 114, 84, 97, 98, 108, 101, 40, 41, 32, 123, 10, 32, 32, 118, 97, 114, 32, 116, 97, 120, 84, 121, 112, 101, 32, 61, 32, 100, 111, 99, 117, 109, 101, 110, 116, 46, 103, 101, 116, 69, 108, 101, 109, 101, 110, 116, 66, 121, 73, 100, 40, 39, 116, 97, 120, 70, 105, 108, 116, 101, 114, 39, 41, 46, 118, 97, 108, 117, 101, 59, 10, 32, 32, 118, 97, 114, 32, 114, 101, 115, 117, 108, 116, 32, 61, 32, 100, 111, 99, 117, 109, 101, 110, 116, 46, 103, 101, 116, 69, 108, 101, 109, 101, 110, 116, 66, 121, 73, 100, 40, 39, 114, 101, 115, 117, 108, 116, 70, 105, 108, 116, 101, 114, 39, 41, 46, 118, 97, 108, 117, 101, 59, 10, 32, 32, 118, 97, 114, 32, 114, 111, 119, 115, 32, 61, 32, 100, 111, 99, 117, 109, 101, 110, 116, 46, 113, 117, 101, 114, 121, 83, 101, 108, 101, 99, 116, 111, 114, 65, 108, 108, 40, 39, 116, 98, 111, 100, 121, 32, 116, 114, 39, 41, 59, 10, 10, 32, 32, 114, 111, 119, 115, 46, 102, 111, 114, 69, 97, 99, 104, 40, 102, 117, 110, 99, 116, 105, 111, 110, 40, 114, 111, 119, 41, 32, 123, 10, 32, 32, 32, 32, 118, 97, 114, 32, 116, 97, 120, 67, 101, 108, 108, 32, 61, 32, 114, 111, 119, 46, 99, 101, 108, 108, 115, 91, 50, 93, 46, 116, 101, 120, 116, 67, 111, 110, 116, 101, 110, 116, 59, 10, 32, 32, 32, 32, 118, 97, 114, 32, 114, 101, 115, 117, 108, 116, 67, 101, 108, 108, 32, 61, 32, 114, 111, 119, 46, 99, 101, 108, 108, 115, 91, 53, 93, 46, 116, 101, 120, 116, 67, 111, 110, 116, 101, 110, 116, 59, 10, 32, 32, 32, 32, 118, 97, 114, 32, 115, 104, 111, 119, 84, 97, 120, 32, 61, 32, 33, 116, 97, 120, 84, 121, 112, 101, 32, 124, 124, 32, 116, 97, 120, 67, 101, 108, 108, 46, 105, 110, 99, 108, 117, 100, 101, 115, 40, 116, 97, 120, 84, 121, 112, 101, 41, 59, 10, 32, 32, 32, 32, 118, 97, 114, 32, 115, 104, 111, 119, 82, 101, 115, 117, 108, 116, 32, 61, 32, 33, 114, 101, 115, 117, 108, 116, 32, 124, 124, 32, 114, 101, 115, 117, 108, 116, 67, 101, 108, 108, 32, 61, 61, 61, 32, 114, 101, 115, 117, 108, 116, 59, 10, 32, 32, 32, 32, 114, 111, 119, 46, 115, 116, 121, 108, 101, 46, 100, 105, 115, 112, 108, 97, 121, 32, 61, 32, 40, 115, 104, 111, 119, 84, 97, 120, 32, 38, 38, 32, 115, 104, 111, 119, 82, 101, 115, 117, 108, 116, 41, 32, 63, 32, 39, 39, 32, 58, 32, 39, 110, 111, 110, 101, 39, 59, 10, 32, 32, 125, 41, 59, 10, 125, 10>>

\* html.escape(s), quote=True
RECURSIVE h(_)
h(s) ==
    IF s = <<>> THEN <<>>
    ELSE (CASE s[1] = 38 -> <<38, 97, 109, 112, 59>>
            [] s[1] = 60 -> <<38, 108, 116, 59>>
            [] s[1] = 62 -> <<38, 103, 116, 59>>
            [] s[1] = 34 -> <<38, 113, 117, 111, 116, 59>>
            [] s[1] = 39 -> <<38, 35, 120, 50, 55, 59>>
            [] OTHER -> <<s[1]>>) \o h(Tail(s))

\* sep.join(items)
RECURSIVE Join(_, _)
Join(items, sep) ==
    IF items = <<>> THEN <<>>
    ELSE IF Len(items) = 1 THEN items[1]
    ELSE items[1] \o sep \o Join(Tail(items), sep)

\* s[:n]
Take(s, n) == SubSeq(s, 1, IF n < Len(s) THEN n ELSE Len(s))

RECURSIVE Flatten(_)
Flatten(lists) == IF lists = <<>> THEN <<>> ELSE Head(lists) \o Flatten(Tail(lists))

\* t.startswith('（')
IsMarker(t) == t # <<>> /\ t[1] = 65288

\* the test of line 86 without the exclusion of markers
Counted_all(tax) == TRUE

\* line 86: the values that enter tax_stats
Counted(tax) == ~IsMarker(tax)

\* a dict built by d[key] = d.get(key, 0) + 1 over keys: its items in insertion order
Tally(keys) ==
    LET firsts == SelectSeq([k \in 1..Len(keys) |-> k],
                            LAMBDA k : \A j \in 1..(k - 1) : keys[j] # keys[k])
    IN  [n \in 1..Len(firsts) |->
            [key |-> keys[firsts[n]],
             count |-> Cardinality({k \in 1..Len(keys) : keys[k] = keys[firsts[n]]})]]

\* lines 82-87
tax_stats(cases_) ==
    Tally(SelectSeq(Flatten([k \in 1..Len(cases_) |-> cases_[k].tax_type]), Counted))

\* lines 82-90
result_stats(cases_) ==
    Tally(SelectSeq([k \in 1..Len(cases_) |-> cases_[k].result], LAMBDA r : r # <<>>))

\* sorted(items, key=lambda x: -x[1]), a stable sort
RECURSIVE SortByCount(_)
SortByCount(items) ==
    IF items = <<>> THEN <<>>
    ELSE LET done == SortByCount(SubSeq(items, 1, Len(items) - 1))
             it == items[Len(items)]
             n == Cardinality({k \in 1..Len(done) : done[k].count >= it.count})
         IN  SubSeq(done, 1, n) \o <<it>> \o SubSeq(done, n + 1, Len(done))

\* sorted(cases, key=lambda x: x.get('number', '')), a stable sort
RECURSIVE SortByNumber(_)
SortByNumber(cases_) ==
    IF cases_ = <<>> THEN <<>>
    ELSE LET done == SortByNumber(SubSeq(cases_, 1, Len(cases_) - 1))
             it == cases_[Len(cases_)]
             n == Cardinality({k \in 1..Len(done) : ~StrLess(it.number, done[k].number)})
         IN  SubSeq(done, 1, n) \o <<it>> \o SubSeq(done, n + 1, Len(done))

\* lines 92-96: the statistics block, the five most frequent tags
StatsLines(cases_) ==
    LET top == Take(SortByCount(tax_stats(cases_)), 5)
    IN  <<<<60, 100, 105, 118, 32, 99, 108, 97, 115, 115, 61, 34, 115, 116, 97, 116, 115, 34, 62>>,
          <<60, 115, 112, 97, 110, 62, 60, 115, 116, 114, 111, 110, 103, 62, 21028, 27770, 25968, 58, 60, 47, 115, 116, 114, 111, 110, 103, 62, 32>> \o str(Len(cases_)) \o <<20214, 60, 47, 115, 112, 97, 110, 62>>>>
        \o [k \in 1..Len(top) |->
              <<60, 115, 112, 97, 110, 32, 99, 108, 97, 115, 115, 61, 34, 116, 97, 120, 45, 116, 97, 103, 32, 116, 97, 120, 45>> \o top[k].key \o <<34, 62>> \o top[k].key
                  \o <<58, 32>> \o str(top[k].count) \o <<20214, 60, 47, 115, 112, 97, 110, 62>>]
        \o <<<<60, 47, 100, 105, 118, 62>>>>

Option(v) == <<60, 111, 112, 116, 105, 111, 110, 32, 118, 97, 108, 117, 101, 61, 34>> \o v \o <<34, 62>> \o v \o <<60, 47, 111, 112, 116, 105, 111, 110, 62>>

\* lines 99-110: the two filters
FilterLines(cases_) ==
    LET taxes == sorted({it.key : it \in Range(tax_stats(cases_))})
        results == sorted({it.key : it \in Range(result_stats(cases_))})
    IN  <<<<60, 100, 105, 118, 32, 99, 108, 97, 115, 115, 61, 34, 102, 105, 108, 116, 101, 114, 34, 62>>,
          <<60, 115, 101, 108, 101, 99, 116, 32, 105, 100, 61, 34, 116, 97, 120, 70, 105, 108, 116, 101, 114, 34, 32, 111, 110, 99, 104, 97, 110, 103, 101, 61, 34, 102, 105, 108, 116, 101, 114, 84, 97, 98, 108, 101, 40, 41, 34, 62>>,
          <<60, 111, 112, 116, 105, 111, 110, 32, 118, 97, 108, 117, 101, 61, 34, 34, 62, 20840, 31246, 30446, 60, 47, 111, 112, 116, 105, 111, 110, 62>>>>
        \o [k \in 1..Len(taxes) |-> Option(taxes[k])]
        \o <<<<60, 47, 115, 101, 108, 101, 99, 116, 62>>,
             <<60, 115, 101, 108, 101, 99, 116, 32, 105, 100, 61, 34, 114, 101, 115, 117, 108, 116, 70, 105, 108, 116, 101, 114, 34, 32, 111, 110, 99, 104, 97, 110, 103, 101, 61, 34, 102, 105, 108, 116, 101, 114, 84, 97, 98, 108, 101, 40, 41, 34, 62>>,
             <<60, 111, 112, 116, 105, 111, 110, 32, 118, 97, 108, 117, 101, 61, 34, 34, 62, 20840, 32080, 26524, 60, 47, 111, 112, 116, 105, 111, 110, 62>>>>
        \o [k \in 1..Len(results) |-> Option(results[k])]
        \o <<<<60, 47, 115, 101, 108, 101, 99, 116, 62>>, <<60, 47, 100, 105, 118, 62>>>>

\* line 130
tax_html(tax_types) ==
    LET shown == SelectSeq(tax_types, Counted)
    IN  Join([k \in 1..Len(shown) |->
                 <<60, 115, 112, 97, 110, 32, 99, 108, 97, 115, 115, 61, 34, 116, 97, 120, 45, 116, 97, 103, 32, 116, 97, 120, 45>> \o shown[k] \o <<34, 62>> \o shown[k] \o <<60, 47, 115, 112, 97, 110, 62>>],
             <<32>>)

\* lines 133-135: a list that holds only markers shows its first element
display_issues(issues_) ==
    LET genuine == Take(SelectSeq(issues_, LAMBDA i : ~IsMarker(i)), 2)
    IN  IF genuine = <<>> /\ issues_ # <<>> THEN Take(issues_, 1) ELSE genuine

\* lines 133-138
issues_text(issues_) ==
    Join(display_issues(issues_), <<44, 32>>)
        \o (IF Len(SelectSeq(issues_, LAMBDA i : ~IsMarker(i))) > 2 THEN <<46, 46, 46>> ELSE <<>>)

\* lines 120-147: the row of a case
RowLines(case) ==
    <<<<60, 116, 114, 62>>,
      <<60, 116, 100, 62, 60, 97, 32, 104, 114, 101, 102, 61, 34>> \o case.number \o <<46, 104, 116, 109, 108, 34, 62>> \o h(case.number) \o <<60, 47, 97, 62, 60, 47, 116, 100, 62>>,
      <<60, 116, 100, 62>> \o h(Take(case.title, 50)) \o <<60, 47, 116, 100, 62>>,
      <<60, 116, 100, 62>> \o tax_html(case.tax_type) \o <<60, 47, 116, 100, 62>>,
      <<60, 116, 100, 32, 99, 108, 97, 115, 115, 61, 34, 105, 115, 115, 117, 101, 115, 34, 62>> \o h(issues_text(case.issue)) \o <<60, 47, 116, 100, 62>>,
      <<60, 116, 100, 62>> \o h(case.date) \o <<60, 47, 116, 100, 62>>,
      <<60, 116, 100, 32, 99, 108, 97, 115, 115, 61, 34>> \o (IF case.result # <<>> THEN <<114, 101, 115, 117, 108, 116, 45>> \o case.result ELSE <<>>)
          \o <<34, 62>> \o h(case.result) \o <<60, 47, 116, 100, 62>>,
      <<60, 47, 116, 114, 62>>>>

\* lines 67-79
HeadLines(title_) ==
    <<<<60, 33, 68, 79, 67, 84, 89, 80, 69, 32, 104, 116, 109, 108, 62>>, <<60, 104, 116, 109, 108, 32, 108, 97, 110, 103, 61, 34, 106, 97, 34, 62>>, <<60, 104, 101, 97, 100, 62>>, <<60, 109, 101, 116, 97, 32, 99, 104, 97, 114, 115, 101, 116, 61, 34, 85, 84, 70, 45, 56, 34, 62>>,
      <<60, 109, 101, 116, 97, 32, 110, 97, 109, 101, 61, 34, 118, 105, 101, 119, 112, 111, 114, 116, 34, 32, 99, 111, 110, 116, 101, 110, 116, 61, 34, 119, 105, 100, 116, 104, 61, 100, 101, 118, 105, 99, 101, 45, 119, 105, 100, 116, 104, 44, 32, 105, 110, 105, 116, 105, 97, 108, 45, 115, 99, 97, 108, 101, 61, 49, 34, 62>>,
      <<60, 116, 105, 116, 108, 101, 62>> \o h(title_) \o <<32, 45, 32, 30446, 27425, 60, 47, 116, 105, 116, 108, 101, 62>>,
      <<60, 115, 116, 121, 108, 101, 62>> \o CSS \o <<60, 47, 115, 116, 121, 108, 101, 62>>,
      <<60, 47, 104, 101, 97, 100, 62>>, <<60, 98, 111, 100, 121, 62>>,
      <<60, 104, 49, 62>> \o h(title_) \o <<60, 47, 104, 49, 62>>>>

\* lines 113-118
TableHead ==
    <<<<60, 116, 97, 98, 108, 101, 62>>, <<60, 116, 104, 101, 97, 100, 62>>,
      <<60, 116, 114, 62, 60, 116, 104, 62, 30058, 21495, 60, 47, 116, 104, 62, 60, 116, 104, 62, 20107, 20214, 21517, 60, 47, 116, 104, 62, 60, 116, 104, 62, 31246, 30446, 60, 47, 116, 104, 62, 60, 116, 104, 62, 20105, 28857, 60, 47, 116, 104, 62, 60, 116, 104, 62, 26085, 20184, 60, 47, 116, 104, 62, 60, 116, 104, 62, 32080, 26524, 60, 47, 116, 104, 62, 60, 47, 116, 114, 62>>,
      <<60, 47, 116, 104, 101, 97, 100, 62>>, <<60, 116, 98, 111, 100, 121, 62>>>>

\* lines 149-153
TailLines == <<<<60, 47, 116, 98, 111, 100, 121, 62>>, <<60, 47, 116, 97, 98, 108, 101, 62>>, <<60, 115, 99, 114, 105, 112, 116, 62>> \o JS \o <<60, 47, 115, 99, 114, 105, 112, 116, 62>>, <<60, 47, 98, 111, 100, 121, 62>>, <<60, 47, 104, 116, 109, 108, 62>>>>

\* the lists of lines the function joins with '\n'
generate_index_html(cases_, title_) ==
    LET rows == SortByNumber(cases_)
    IN  HeadLines(title_) \o StatsLines(cases_) \o FilterLines(cases_) \o TableHead
        \o Flatten([k \in 1..Len(rows) |-> RowLines(rows[k])]) \o TailLines

\* main, lines 158-176: index.json is read, the page is written
GenerateIndex ==
    /\ pc = "index"
    /\ index_html' = generate_index_html(cases, title)
    /\ pc' = "done"
    /\ UNCHANGED <<arg, tag, ret, text, title, laws, issues, applied, sections, cases, idx, index, html, saved>>

(***************************************************************************)
(* The indexes of the page generation                                      *)
(***************************************************************************)
MaxIndexCases == 2   \* an index holds 1..MaxIndexCases cases

IndexKind(result_, tax_type_, issue_) ==
    [result |-> result_, tax_type |-> tax_type_, issue |-> issue_]

CitationIssue == <<65288, 21407, 21028, 27770, 24341, 29992, 65289>>
ProcedureIssue == <<65288, 35380, 35359, 35201, 20214, 65289>>

IndexKinds == {
    IndexKind(<<26820, 21364>>, <<<<25152, 24471, 31246>>>>, <<<<24517, 35201, 32076, 36027, 12398, 31684, 22258>>>>),
    IndexKind(<<>>, <<UnknownSentinel>>, <<CitationIssue>>),
    IndexKind(<<35469, 23481>>, <<<<25152, 24471, 31246>>, <<27861, 20154, 31246>>>>,
              <<<<20132, 38555, 36027, 60, 35442, 24403, 24615, 62>>, ProcedureIssue, <<23492, 38468, 37329, 38, 25613, 37329>>, <<37325, 21152, 31639, 31246, 12398, 36070, 35506, 35201, 20214>>>>),
    IndexKind(<<26820, 21364>>, <<>>, <<>>),
    IndexKind(<<>>, <<<<27861, 20154, 31246>>, UnknownSentinel>>, <<ProcedureIssue, CitationIssue>>),
    IndexKind(<<26820, 21364>>, <<UnknownSentinel, <<28040, 36027, 31246>>>>, <<CitationIssue, <<20181, 20837, 31246, 38989, 25511, 38500, 12398, 21487, 21542>>>>) }

InitIndex ==
    /\ pc = "index"
    /\ \E n \in 1..MaxIndexCases :
       \E kinds \in [1..n -> IndexKinds] : \E numbers \in [1..n -> {<<57>>, <<49, 48>>}] :
          index = [k \in 1..n |->
                     [number |-> numbers[k], title |-> BaseName, date |-> <<20196, 21644, 50, 24180, 51, 26376, 52, 26085>>,
                      result |-> kinds[k].result, tax_type |-> kinds[k].tax_type,
                      issue |-> kinds[k].issue]]
    /\ cases = index
    /\ title = <<22269, 31246, 24193, 21028, 27770, 20107, 20363, 38598>>
    /\ idx = 0 /\ html = <<>> /\ saved = "" /\ index_html = <<>>
    /\ arg = <<>> /\ tag = [kind |-> "none", n |-> 0] /\ ret = <<>>
    /\ text = <<>> /\ laws = <<>> /\ issues = <<>> /\ applied = {}
    /\ sections = <<>>

NextIndex == GenerateIndex

SpecIndex == InitIndex /\ [][NextIndex]_vars

(***************************************************************************)
(* Statements about the generated page                                     *)
(***************************************************************************)
\* the lines of the r-th table row of the page: <tr> is its first line, the
\* tax cell its fourth, the issue cell its fifth
RowStart(r) ==
    CHOOSE k \in 1..Len(index_html) :
        /\ index_html[k] = <<60, 116, 114, 62>>
        /\ Cardinality({j \in 1..k : index_html[j] = <<60, 116, 114, 62>>}) = r
TaxCell(r) == index_html[RowStart(r) + 3]
IssueCell(r) == index_html[RowStart(r) + 4]

\* the lines of the statistics block and of the tax filter
StartsWith(s, prefix) == Len(s) >= Len(prefix) /\ SubSeq(s, 1, Len(prefix)) = prefix
StatsAndOptions ==
    {k \in 1..Len(index_html) :
        \/ StartsWith(index_html[k], <<60, 115, 112, 97, 110, 32, 99, 108, 97, 115, 115, 61, 34, 116, 97, 120, 45, 116, 97, 103, 32>>)
        \/ StartsWith(index_html[k], <<60, 111, 112, 116, 105, 111, 110, 32, 118, 97, 108, 117, 101, 61, 34>>)}

Markers(list) == {t \in Range(list) : t # <<>> /\ t[1] = 65288}
Genuine(list) == SelectSeq(list, LAMBDA t : ~(t # <<>> /\ t[1] = 65288))
TaxMarkers == UNION {Markers(cases[k].tax_type) : k \in 1..Len(cases)}

\* the r-th row of the page shows the r-th case in the order of the numbers
Shown(r) == SortByNumber(cases)[r]

\* no marker of tax_type in the statistics, the filter and the tax cells
TaxMarkersHidden ==
    /\ \A k \in StatsAndOptions : \A s \in TaxMarkers : ~Contains(index_html[k], s)
    /\ \A r \in 1..Len(cases) : \A s \in TaxMarkers : ~Contains(TaxCell(r), s)

\* C22 as stated: a value beginning with （ found in a tax_type or issue list
\* is not counted in the statistics, not offered in the filter, and not
\* rendered in the tax cell or in the issue cell of any row.
C22_MarkersNeverShown ==
    pc = "done" =>
        /\ TaxMarkersHidden
        /\ \A r \in 1..Len(cases) :
              \A s \in Markers(Shown(r).issue) : ~Contains(IssueCell(r), s)

\* C22 as amended: the markers of tax_type are hidden as stated; a marker of
\* the issue list is not rendered when the list holds a genuine issue, and a
\* list that holds only markers renders its first element and no other.
C22_MarkersShownOnlyAlone ==
    pc = "done" =>
        /\ TaxMarkersHidden
        /\ \A r \in 1..Len(cases) :
              IF Genuine(Shown(r).issue) # <<>>
              THEN \A s \in Markers(Shown(r).issue) : ~Contains(IssueCell(r), s)
              ELSE IssueCell(r) =
                      <<60, 116, 100, 32, 99, 108, 97, 115, 115, 61, 34, 105, 115, 115, 117, 101, 115, 34, 62>>
                          \o (IF Shown(r).issue = <<>> THEN <<>> ELSE Shown(r).issue[1])
                          \o <<60, 47, 116, 100, 62>>

\* a page with a tag counted twice beside a hidden tax marker, a row whose
\* issue cell shows the first of two markers, and a row whose issue cell
\* shows genuine issues without the marker between them
C22_Witness ==
    /\ pc = "done"
    /\ TaxMarkers # {}
    /\ \E k \in StatsAndOptions : Contains(index_html[k], <<58, 32, 50, 20214>>)
    /\ \E r \in 1..Len(cases) :
          /\ Genuine(Shown(r).issue) = <<>> /\ Len(Shown(r).issue) = 2
          /\ Contains(IssueCell(r), Shown(r).issue[1])
    /\ \E r \in 1..Len(cases) :
          /\ Len(Genuine(Shown(r).issue)) > 2 /\ Markers(Shown(r).issue) # {}
          /\ Contains(IssueCell(r), <<46, 46, 46>>)

(***************************************************************************)
(* One raw text taken through parse_sections, extract_laws_from_text and   *)
(* extract_issues: a disposition, a facts-and-reasons part that states the *)
(* issue and cites one provision                                           *)
(***************************************************************************)
IssueSentence == <<20105, 28857, 12399, 12289, 26412, 20214, 35698, 28193, 25152, 24471, 12398, 24517, 35201, 32076, 36027, 12398, 31684, 22258, 12363, 21542, 12363, 12391, 12354, 12427, 12290>>
CitingSentences == {<<25152, 24471, 31246, 27861, 31532, 51, 55, 26465, 12395, 12424, 12427, 12290>>, <<21407, 21578, 12399, 25152, 24471, 31246, 27861, 31532, 51, 55, 26465, 12398, 36969, 29992, 12434, 20027, 24373, 12377, 12427, 12290>>}

MainHeadings == {<<20027, 25991>>, <<20027, 12288, 25991>>}
Dispositions == {<<21407, 21578, 12398, 35531, 27714, 12434, 26820, 21364, 12377, 12427, 12290>>, <<65297, 12288, 21407, 21578, 12398, 35531, 27714, 12434, 26820, 21364, 12377, 12427, 12290, 10, 65298, 12288, 35380, 35359, 36027, 29992, 12399, 21407, 21578, 12398, 36000, 25285, 12392, 12377, 12427, 12290>>}
FactsHeadings == {<<20107, 23455, 21450, 12403, 29702, 30001>>, <<20107, 23455, 21450, 12403, 29702, 30001, 10, 31532, 65297, 12288, 35531, 27714, 10, 20966, 20998, 12398, 21462, 28040, 12375, 12434, 27714, 12417, 12427, 12290, 10, 31532, 65298, 12288, 20107, 26696, 12398, 27010, 35201>>}
Breaks == {<<>>, <<10>>}

Bodies ==
    {a \o br \o b : a \in {IssueSentence}, br \in Breaks, b \in CitingSentences}
    \cup {b \o br \o a : a \in {IssueSentence}, br \in Breaks, b \in CitingSentences}

RawTexts ==
    {m \o <<10>> \o d \o <<10>> \o f \o <<10>> \o body :
        m \in MainHeadings, d \in Dispositions, f \in FactsHeadings, body \in Bodies}

InitScenario ==
    /\ pc = "raw"
    /\ text \in RawTexts
    /\ title \in {BaseName, <<>>}
    /\ sections = <<>> /\ laws = <<>> /\ issues = <<>> /\ applied = {}
    /\ arg = <<>> /\ tag = [kind |-> "none", n |-> 0] /\ ret = <<>>
    /\ cases = <<>> /\ idx = 0 /\ index = <<>> /\ html = <<>> /\ saved = "" /\ index_html = <<>>

\* generate_hanketsu_html: the sections of the text
Segment ==
    /\ pc = "raw"
    /\ sections' = parse_sections(text)
    /\ pc' = "parsed"
    /\ UNCHANGED <<arg, tag, ret, text, title, laws, issues, applied, cases, idx, index, html, saved, index_html>>

\* update_laws: the citations of the text
CiteLaws ==
    /\ pc = "parsed"
    /\ laws' = extract_laws_from_text(text, title)
    /\ pc' = "cited"
    /\ UNCHANGED <<arg, tag, ret, text, title, issues, applied, sections, cases, idx, index, html, saved, index_html>>

\* fix_tax_issue: the issues of the text
FindIssues ==
    /\ pc = "cited"
    /\ \E collected \in {Collected(text)} :
           /\ issues' = First10(Unique(collected.issues, {}))
           /\ applied' = collected.applied
    /\ pc' = "done"
    /\ UNCHANGED <<arg, tag, ret, text, title, laws, sections, cases, idx, index, html, saved, index_html>>

NextScenario == Segment \/ CiteLaws \/ FindIssues

SpecScenario == InitScenario /\ [][NextScenario]_vars

\* C23: for a raw text with a 主文 part and a facts-and-reasons part that
\* holds the sentence 争点は、本件譲渡所得の必要経費の範囲か否かである。 and the
\* citation 所得税法第37条, the output has exactly one section labelled 主文,
\* the issue list [本件譲渡所得の必要経費の範囲か否か] and the citation list
\* [所得税法37条].
C23_EndToEnd ==
    pc = "done" =>
        /\ Cardinality({k \in 1..Len(sections) : sections[k].title = <<20027, 25991>>}) = 1
        /\ issues = <<<<26412, 20214, 35698, 28193, 25152, 24471, 12398, 24517, 35201, 32076, 36027, 12398, 31684, 22258, 12363, 21542, 12363>>>>
        /\ laws = <<<<25152, 24471, 31246, 27861, 51, 55, 26465>>>>

\* the three results of a text whose facts part is divided by 第 headings
C23_Witness ==
    /\ pc = "done"
    /\ Contains(text, <<31532, 65298, 12288, 20107, 26696, 12398, 27010, 35201>>) /\ Contains(text, <<20027, 12288, 25991>>)
    /\ Len(sections) >= 2 /\ sections[1].title = <<20027, 25991>>
    /\ issues = <<<<26412, 20214, 35698, 28193, 25152, 24471, 12398, 24517, 35201, 32076, 36027, 12398, 31684, 22258, 12363, 21542, 12363>>>>
    /\ laws = <<<<25152, 24471, 31246, 27861, 51, 55, 26465>>>>
    /\ applied = {4}

(***************************************************************************)
(* Further statements about extract_laws_from_text                         *)
(***************************************************************************)
\* the citations the searches for full names and abbreviations yield on text
DirectlyFound ==
    DirectCitations(StripSpace(text), RemoveAll(StripSpace(text), BracketPattern))

\* C24: when the direct search over full law names and abbreviations finds at
\* least one citation, or the title holds none of the keywords a primary law
\* is inferred from, no 同法 reference contributes to the output: the list
\* holds the directly found citations and no other.
C24_SaidLawOnlyAsFallback ==
    (pc = "done" /\ Contains(text, <<21516, 27861>>)) =>
        \E direct \in {DirectlyFound} :
            (direct # {} \/ FirstKeywordLaw(title) = <<>>) => Range(laws) = direct

\* a text with a direct citation and a 同法 reference, under a title with a
\* keyword: the reference is left out
C24_Witness ==
    /\ pc = "done"
    /\ text = <<25152, 24471, 31246, 27861, 31532, 51, 54, 26465, 12289, 21516, 27861, 31532, 52, 53, 26465>>
    /\ title = <<25152, 24471, 31246, 26356, 27491, 20966, 20998, 21462, 28040, 35531, 27714, 20107, 20214>>
    /\ laws = <<<<25152, 24471, 31246, 27861, 51, 54, 26465>>>>

\* the abbreviation forms that are followed by an article number, and the laws
\* they stand for
AbbrLaws == {
    [abbr |-> <<25152, 27861>>, law |-> <<25152, 24471, 31246, 27861>>], [abbr |-> <<27861, 27861>>, law |-> <<27861, 20154, 31246, 27861>>],
    [abbr |-> <<28040, 27861>>, law |-> <<28040, 36027, 31246, 27861>>], [abbr |-> <<30456, 27861>>, law |-> <<30456, 32154, 31246, 27861>>],
    [abbr |-> <<36890, 27861>>, law |-> <<22269, 31246, 36890, 21063, 27861>>], [abbr |-> <<36890, 21063, 27861>>, law |-> <<22269, 31246, 36890, 21063, 27861>>],
    [abbr |-> <<25514, 27861>>, law |-> <<31199, 31246, 29305, 21029, 25514, 32622, 27861>>], [abbr |-> <<25514, 32622, 27861>>, law |-> <<31199, 31246, 29305, 21029, 25514, 32622, 27861>>],
    [abbr |-> <<24500, 27861>>, law |-> <<22269, 31246, 24500, 21454, 27861>>], [abbr |-> <<24500, 21454, 27861>>, law |-> <<22269, 31246, 24500, 21454, 27861>>],
    [abbr |-> <<34892, 35380, 27861>>, law |-> <<34892, 25919, 20107, 20214, 35380, 35359, 27861>>], [abbr |-> <<27665, 35380, 27861>>, law |-> <<27665, 20107, 35380, 35359, 27861>>],
    [abbr |-> <<25152, 20196>>, law |-> <<25152, 24471, 31246, 27861, 26045, 34892, 20196>>], [abbr |-> <<27861, 20196>>, law |-> <<27861, 20154, 31246, 27861, 26045, 34892, 20196>>],
    [abbr |-> <<28040, 20196>>, law |-> <<28040, 36027, 31246, 27861, 26045, 34892, 20196>>], [abbr |-> <<30456, 20196>>, law |-> <<30456, 32154, 31246, 27861, 26045, 34892, 20196>>],
    [abbr |-> <<25514, 20196>>, law |-> <<31199, 31246, 29305, 21029, 25514, 32622, 27861, 26045, 34892, 20196>>],
    [abbr |-> <<25152, 35215>>, law |-> <<25152, 24471, 31246, 27861, 26045, 34892, 35215, 21063>>], [abbr |-> <<27861, 35215>>, law |-> <<27861, 20154, 31246, 27861, 26045, 34892, 35215, 21063>>] }

\* C25: a citation written with an abbreviation is extracted as the same
\* citation written with the full law name is: from the whitespace-stripped
\* text, inside parentheticals as well as outside, as L n 条 when no
\* sub-article follows and as L n 条の m when の and a numeral m follow.
C25_AbbreviationAsFullName ==
    pc = "done" =>
        \E t \in {StripSpace(text)} :
            \A a \in AbbrLaws : \A p \in Occurrences(t, a.abbr) :
                LET c == CitedAt(t, p, a.abbr)
                    n == NumeralDigits(c.run)
                    m == NumeralDigits(c.sub)
                IN  (c.ok /\ n # <<>>) =>
                        /\ c.sub = <<>> => (a.law \o n \o <<26465>>) \in Range(laws)
                        /\ m # <<>> => (a.law \o n \o <<26465, 12398>> \o m) \in Range(laws)

(***************************************************************************)
(* Further statements about the resolution pass                            *)
(***************************************************************************)
\* case k satisfies the origin condition for case i: strictly lower rank and
\* a title that equals the base title or, the base title not being empty,
\* contains it
Candidate(k, i) ==
    /\ Lower(k, i)
    /\ \/ TitleEquals(k, i)
       \/ BaseTitle(index[i].title) # <<>> /\ TitleContains(k, i)

\* C26: when several cases of the corpus satisfy the origin condition,
\* find_original_judgment returns the first of them in corpus order, whether
\* its title equals or contains the base title; an equal title later in the
\* corpus does not take precedence over a containing title before it.
C26_FirstInCorpusOrder ==
    \A i \in 1..Len(cases) :
        \E o \in {find_original_judgment(cases[i], cases)} :
            IF \E k \in 1..Len(cases) : Candidate(k, i)
            THEN Candidate(o, i) /\ \A k \in 1..(o - 1) : ~Candidate(k, i)
            ELSE o = 0

\* an appeal that inherited from a case whose longer title contains the base
\* title, a case with the base title itself coming later in the corpus
C26_Witness ==
    \E i \in 1..Len(cases) : \E b \in 1..Len(cases) : \E o \in 1..Len(cases) :
        /\ Resolving(i) /\ b < o
        /\ Candidate(b, i) /\ ~TitleEquals(b, i)
        /\ Candidate(o, i) /\ TitleEquals(o, i)
        /\ find_original_judgment(cases[i], cases) = b
        /\ cases[i].original_case = b
        /\ cases[i].laws = <<InheritanceMarker>> \o index[b].laws

\* C29: in a list of inherited citations every element after the leading
\* inheritance marker is a citation and not a sentinel, whatever the order of
\* the cases in the corpus.
C29_InheritedAreCitations ==
    \A i \in 1..Len(cases) :
        (cases[i].laws_source = "inherited" \/ cases[i].original_case # 0) =>
            \A k \in 2..Len(cases[i].laws) :
                /\ cases[i].laws[k] # <<>>
                /\ cases[i].laws[k][1] # 65288

(***************************************************************************)
(* update_laws.py: main, and the passes run one after another over the     *)
(* same index.json                                                         *)
(***************************************************************************)
\* lines 228-229: no html file
UpdateSkip ==
    /\ pc = "update" /\ idx < Len(cases)
    /\ ~CurrentFile.exists
    /\ idx' = idx + 1
    /\ UNCHANGED <<pc, arg, tag, ret, text, title, laws, issues, applied, sections, cases, index, html, saved, index_html>>

\* lines 231-236: the laws of the case are replaced by the citations of its text
UpdateCase ==
    /\ pc = "update" /\ idx < Len(cases)
    /\ CurrentFile.exists /\ CurrentFile.readable
    /\ cases' = [cases EXCEPT ![idx + 1].laws =
                     extract_laws_from_text(CurrentFile.text, Current.title)]
    /\ idx' = idx + 1
    /\ UNCHANGED <<pc, arg, tag, ret, text, title, laws, issues, applied, sections, index, html, saved, index_html>>

\* lines 231-232, 245-246: extract_text_from_html raises; the error is printed
UpdateFailed ==
    /\ pc = "update" /\ idx < Len(cases)
    /\ CurrentFile.exists /\ ~CurrentFile.readable
    /\ idx' = idx + 1
    /\ UNCHANGED <<pc, arg, tag, ret, text, title, laws, issues, applied, sections, cases, index, html, saved, index_html>>

\* lines 249-250: json.dump(cases, f)
SaveUpdated ==
    /\ pc = "update" /\ idx = Len(cases)
    /\ index' = cases
    /\ pc' = "done"
    /\ saved' = "update"
    /\ UNCHANGED <<arg, tag, ret, text, title, laws, issues, applied, sections, cases, idx, html, index_html>>

\* update_laws main is started: lines 216-217, cases = json.load(f)
StartUpdate ==
    /\ pc = "done"
    /\ cases' = index /\ idx' = 0
    /\ pc' = "update"
    /\ UNCHANGED <<arg, tag, ret, text, title, laws, issues, applied, sections, index, html, saved, index_html>>

\* fix_empty_laws main is started: lines 113-114, cases = json.load(f)
StartResolve ==
    /\ pc = "done"
    /\ cases' = index /\ idx' = 0
    /\ pc' = "resolve"
    /\ UNCHANGED <<arg, tag, ret, text, title, laws, issues, applied, sections, index, html, saved, index_html>>

\* lower-court cases and appeals, with files that cite, dismiss, hold a
\* citation of their own, are missing, or cannot be read
PassKinds == {
    Kind(BaseName, <<26481, 20140, 22320, 26041, 35009, 21028, 25152>>, <<<<25152, 24471, 31246, 27861, 51, 55, 26465>>>>, NoFile),
    Kind(BaseName, <<26481, 20140, 22320, 26041, 35009, 21028, 25152>>, <<>>, File(<<25152, 24471, 31246, 27861, 65299, 65302, 26465, 12395, 12424, 12427, 12290>>)),
    Kind(BaseName, <<26481, 20140, 22320, 26041, 35009, 21028, 25152>>, <<>>, File(PlainText)),
    Kind(BaseName, <<26481, 20140, 22320, 26041, 35009, 21028, 25152>>, <<<<27861, 20154, 31246, 27861, 50, 50, 26465>>>>, Unreadable),
    Kind(AppealName, <<26481, 20140, 39640, 31561, 35009, 21028, 25152>>, <<>>, File(CitingText)),
    Kind(AppealName, <<26481, 20140, 39640, 31561, 35009, 21028, 25152>>, <<>>, File(DismissingText)),
    Kind(AppealName, <<26481, 20140, 39640, 31561, 35009, 21028, 25152>>, <<>>, Unreadable) }

InitPasses ==
    /\ pc = "done"
    /\ \E n \in 1..MaxCases : \E kinds \in [1..n -> PassKinds] : Loaded(kinds)
    /\ cases = index
    /\ idx = 0
    /\ arg = <<>> /\ tag = [kind |-> "none", n |-> 0] /\ ret = <<>>
    /\ text = <<>> /\ title = <<>> /\ laws = <<>> /\ issues = <<>> /\ applied = {}
    /\ sections = <<>> /\ saved = "" /\ index_html = <<>>

NextPasses ==
    \/ StartUpdate \/ UpdateSkip \/ UpdateCase \/ UpdateFailed \/ SaveUpdated
    \/ StartResolve \/ SkipCase \/ Dismissal \/ Citation \/ Reextract \/ ResolveFailed
    \/ SaveResolved

SpecPasses == InitPasses /\ [][NextPasses]_vars

\* C27: the resolution pass never changes a field of a case whose laws list
\* is non-empty when the pass reaches it, and it is idempotent: run on the
\* index it has itself written, it changes no case.
C27_SkipsAndIdempotent ==
    pc = "resolve" =>
        \A i \in 1..idx :
            /\ index[i].laws # <<>> => cases[i] = index[i]
            /\ saved = "resolve" => cases[i] = index[i]

\* the second of two runs in a row has gone through a corpus in which the
\* first has marked one case and given another the laws of the first
C27_Witness ==
    /\ pc = "resolve" /\ saved = "resolve" /\ idx = Len(cases) /\ idx >= 2
    /\ \E i \in 1..idx : cases[i].laws_source = "inherited"
    /\ \E i \in 1..idx : html[i].exists /\ Len(cases[i].laws) = 1 /\ cases[i].laws[1][1] = 65288

\* the case carries a back-link to an origin
Linked(case) == case.original_case # 0 \/ case.laws_source = "inherited"

\* C28: after any sequence of runs of the citation-update pass and the
\* resolution pass over the same index, every case that carries an
\* original_case back-link (or laws_source = inherited) has a laws list that
\* starts with the inheritance marker followed by citations.
C28_BackLinkKeepsInheritedLaws ==
    pc = "done" =>
        \A i \in 1..Len(index) :
            Linked(index[i]) =>
                /\ Len(index[i].laws) >= 2
                /\ index[i].laws[1] = InheritanceMarker
                /\ \A k \in 2..Len(index[i].laws) : IsCitation(index[i].laws[k])
====
